---------------------------- MODULE Spec2Model ----------------------------
(***************************************************************************)
(* SPARC-MPI: the distributed radial particle kernel.                      *)
(*                                                                         *)
(* size processes (ranks) each own a shell, a structure of nine arrays     *)
(* x, y, z, vx, vy, vz, q, Er, r2.  Every timestep the driver calls        *)
(* sortParticlesParallel, updateElectricFieldParallel and updatePositions. *)
(*                                                                         *)
(* Numbers.  A double is modelled by an integer (a point of a grid); sums, *)
(* products and comparisons are exact.  The quotient Er = cumulative / r2  *)
(* is kept as the exact fraction [num, den].  A splitter                   *)
(* r2_min + (b+1) * bin_width, with bin_width = (r2_max - r2_min)/NUM_BINS,*)
(* is kept multiplied by NUM_BINS, which is again an integer.  The only    *)
(* inexact operation is the velocity increment dt*qom*Er*x/sqrt(r2) of     *)
(* updatePositions, whose exact real value is rounded toward zero.         *)
(*                                                                         *)
(* Arrays are sequences indexed from 1 (the code indexes from 0); ranks,   *)
(* bins and splitter numbers are indexed from 0 as in the code.            *)
(*                                                                         *)
(* A collective (MPI_Allreduce, MPI_Alltoall, MPI_Alltoallv, MPI_Exscan)   *)
(* is one action that fires when every rank has reached the call.          *)
(* Orders the C++ library leaves open (std::sort and std::priority_queue   *)
(* among elements of equal r2) are a choice among all permitted orders.    *)
(***************************************************************************)
EXTENDS Integers, Sequences, FiniteSets, Bags, TLC

\* ------------------------------------------------------------------ bounds
MaxSize == 2        \* ranks: size ranges over 1..MaxSize
MaxN == 3           \* particles: N ranges over 0..MaxN (1..MaxN in main)
MaxSteps == 2       \* Nt, the number of iterations of the main loop, in main

\* ------------------------------------------------------- program constants
NUM_BINS == 1024
DBL_MAX == 1000000  \* stands for numeric_limits<double>::max(): above every r2
SAVE_INTERVAL == 2
dt == 1
iqom == 1            \* the iqom of a species line, unless stated otherwise
R == 2              \* the radius of the sphere main samples positions in
QUnit == 4          \* Q / N, the charge of every particle created by main

VARIABLES
    size,       \* mpi.size
    n_total,    \* N, ParticleSystem::n_total
    ps,         \* ps[r]: the shell (ParticleSystem) of rank r
    pc,         \* pc[r]: the statement rank r is at
    it,         \* it[r]: loop counter of main on rank r; -1 before the loop
    scratch,    \* scratch[r]: the locals of the call rank r is executing
    Nt,         \* the number of iterations of the main loop, ceil(tend / dt)
    flags,      \* main's four flags after the command line is parsed (the
                \*         command line is the same on every rank)
    config,     \* N, R, dt, tend as main read them from the input file
    num_species,\* the number of species records of the input file
    sp,         \* sp[r]: the species index i of main's loops on rank r
    particle_systems,
                \* particle_systems[r][i]: the shell of species i on rank r
                \*         (at "parked" while ps is not bound to it, at
                \*         "bound" while it is, at "none" before main
                \*         created it)
    files,      \* the file writes made so far: who wrote which file
    particle_names,  \* particle_names[i]: the name on the i-th species line
    csv,        \* csv[n]: the lines of output/simulation_output_<n>.txt,
                \*         << >> while the file does not exist
    dirs,       \* the ranks that have called mkdir("output")
    printed,    \* the energy-error lines printed so far: who, for which step
    pre,        \* pre[r]: history of the latest call of sortParticlesParallel
                \*         on rank r: the bag of records (r2 recomputed) the
                \*         rank entered with and whether their r2 were in
                \*         non-decreasing order; forgotten when the ranks
                \*         go on to the field update's exchange
    once        \* once[r]: history of a repeated call of
                \*         updateElectricFieldParallel on rank r: whether the
                \*         call was repeated, in which iteration, and the
                \*         shell as the first call left it

vars == <<size, n_total, Nt, ps, pc, it, scratch, pre, flags, config,
          num_species, sp, particle_systems, files, csv, dirs, printed,
          once, particle_names>>

\* the state of the driver, and the history of a repeated call, that the
\* kernels leave alone
drv == <<flags, config, num_species, sp, particle_systems, files, csv,
         dirs, printed, once, particle_names>>

Ranks == 0 .. size - 1

\* ----------------------------------------------------------------- helpers
Min(S) == CHOOSE m \in S : \A e \in S : m <= e
Max(S) == CHOOSE m \in S : \A e \in S : m >= e

RECURSIVE SumSeq(_)
SumSeq(s) == IF s = <<>> THEN 0 ELSE Head(s) + SumSeq(Tail(s))

RECURSIVE SumFn(_, _)
\* sum of f[k] for k in lo..hi, as std::accumulate over a vector
SumFn(f, S) == IF S = {} THEN 0
               ELSE LET k == Min(S) IN f[k] + SumFn(f, S \ {k})

\* the bag of the elements of a sequence
RECURSIVE BagOfSeq(_)
BagOfSeq(s) == IF s = <<>> THEN EmptyBag
               ELSE SetToBag({Head(s)}) (+) BagOfSeq(Tail(s))

RECURSIVE Concat(_, _)
\* f[lo] \o f[lo+1] \o ... for the keys of S in increasing order
Concat(f, S) == IF S = {} THEN <<>>
                ELSE LET k == Min(S) IN f[k] \o Concat(f, S \ {k})

num_fields == 9

ErZero == [num |-> 0, den |-> 1]

\* ParticleSystem::ParticleSystem / resize: nine arrays of length n
\* (std::vector::resize keeps the leading elements and value-initialises
\* the new ones)
ResizeArr(arr, n, zero) ==
    [i \in 1 .. n |-> IF i <= Len(arr) THEN arr[i] ELSE zero]

\* mutation of resize: n_particles is not updated
resize_KeepsCount(s, n) ==
    [ x  |-> ResizeArr(s.x, n, 0),  y  |-> ResizeArr(s.y, n, 0),
      z  |-> ResizeArr(s.z, n, 0),  vx |-> ResizeArr(s.vx, n, 0),
      vy |-> ResizeArr(s.vy, n, 0), vz |-> ResizeArr(s.vz, n, 0),
      q  |-> ResizeArr(s.q, n, 0),  Er |-> ResizeArr(s.Er, n, ErZero),
      r2 |-> ResizeArr(s.r2, n, 0), n_particles |-> s.n_particles,
      iqom |-> s.iqom ]

resize(s, n) ==
    [ x  |-> ResizeArr(s.x, n, 0),  y  |-> ResizeArr(s.y, n, 0),
      z  |-> ResizeArr(s.z, n, 0),  vx |-> ResizeArr(s.vx, n, 0),
      vy |-> ResizeArr(s.vy, n, 0), vz |-> ResizeArr(s.vz, n, 0),
      q  |-> ResizeArr(s.q, n, 0),  Er |-> ResizeArr(s.Er, n, ErZero),
      r2 |-> ResizeArr(s.r2, n, 0), n_particles |-> n,
      iqom |-> s.iqom ]

\* mutation of computeSquareRadius: the cached r2 is kept
computeSquareRadius_Stale(s) == s

\* ParticleSystem::computeSquareRadius
computeSquareRadius(s) ==
    [s EXCEPT !.r2 = [i \in 1 .. s.n_particles |->
                         s.x[i] * s.x[i] + s.y[i] * s.y[i] + s.z[i] * s.z[i]]]

\* the 9-field record of particle i of shell s
Rec(s, i) == <<s.x[i], s.y[i], s.z[i], s.vx[i], s.vy[i], s.vz[i],
               s.q[i], s.Er[i], s.r2[i]>>

Records(s) == [i \in 1 .. s.n_particles |-> Rec(s, i)]

\* ------------------------------------------------------------------- Init
\* mutation of LocalN: the remainder is dropped
LocalN_NoRemainder(N, sz, rank) == N \div sz

\* main: local_N = N / size + (rank < N % size ? 1 : 0)
LocalN(N, sz, rank) == (N \div sz) + (IF rank < N % sz THEN 1 ELSE 0)

\* the points main's sampling loop can accept: inside the sphere of radius R
Positions == { p \in (0 .. R) \X (0 .. 1) \X {0} :
                 p[1] * p[1] + p[2] * p[2] + p[3] * p[3] <= R * R }

\* main's flags before the command line is parsed
DefaultFlags ==
    [ save_positions_flag |-> 0, save_simulation_data_flag |-> 1,
      save_energy_distribution_flag |-> 0, no_save_flag |-> 0 ]

RECURSIVE ParseFlags(_, _)
\* main's loop over argv[2..]: the options take effect from left to right
ParseFlags(args, f) ==
    IF args = <<>> THEN f
    ELSE ParseFlags(Tail(args),
           CASE Head(args) = "-p" -> [f EXCEPT !.save_positions_flag = 1]
             [] Head(args) = "-s" -> [f EXCEPT !.save_simulation_data_flag = 1]
             [] Head(args) = "-e" ->
                  [f EXCEPT !.save_energy_distribution_flag = 1]
             [] Head(args) = "-n" ->
                  [f EXCEPT !.no_save_flag = 1,
                            !.save_simulation_data_flag = 0]
             [] OTHER -> f)

\* a shell of particles at rest at the positions pos, each of charge charge;
\* Er is left as the constructor's resize made it
ShellOf(pos, charge) ==
    [ x  |-> [i \in 1 .. Len(pos) |-> pos[i][1]],
      y  |-> [i \in 1 .. Len(pos) |-> pos[i][2]],
      z  |-> [i \in 1 .. Len(pos) |-> pos[i][3]],
      vx |-> [i \in 1 .. Len(pos) |-> 0],
      vy |-> [i \in 1 .. Len(pos) |-> 0],
      vz |-> [i \in 1 .. Len(pos) |-> 0],
      q  |-> [i \in 1 .. Len(pos) |-> charge],
      Er |-> [i \in 1 .. Len(pos) |-> ErZero],
      r2 |-> [i \in 1 .. Len(pos) |->
                 pos[i][1] * pos[i][1] + pos[i][2] * pos[i][2]
                   + pos[i][3] * pos[i][3]],
      n_particles |-> Len(pos),
      iqom |-> iqom ]

\* a shell as main fills it: zero velocity, charge Q/N, r2 of the position;
\* Er is left as the constructor's resize made it
NewShell(pos) == ShellOf(pos, QUnit)

\* the entries of particle_systems: std::vector<std::unique_ptr<
\* ParticleSystem>>, the element not created yet, the element the reference
\* ps of the loop body is bound to, and an element with the shell it holds
NoEntry == [ at |-> "none", shell |-> ShellOf(<<>>, 0) ]
BoundEntry == [ at |-> "bound", shell |-> ShellOf(<<>>, 0) ]
Parked(s) == [ at |-> "parked", shell |-> s ]

NoScratch == [ none |-> TRUE ]

\* no repeated call of updateElectricFieldParallel was made
NoOnce == [ called |-> FALSE, at |-> -1, shell |-> ShellOf(<<>>, 0) ]

MaxSpecies == 2     \* species records of the input file: 0 .. MaxSpecies

\* the names a species line can give
Names == 0 .. MaxSpecies - 1

NoPre == [ recs |-> EmptyBag, sorted |-> TRUE ]

\* the state of a run of one species with main's default flags at the
\* initial call of sortParticlesParallel: rank r holds the shell shells[r]
InitKernel(sz, N, steps, shells) ==
    /\ size = sz
    /\ Nt = steps
    /\ n_total = N
    /\ ps = shells
    /\ pc = [r \in 0 .. sz - 1 |-> "sort"]
    /\ it = [r \in 0 .. sz - 1 |-> -1]
    /\ scratch = [r \in 0 .. sz - 1 |-> NoScratch]
    /\ pre = [r \in 0 .. sz - 1 |-> NoPre]
    /\ flags = DefaultFlags
    /\ config = [ N |-> N, R |-> R, dt |-> dt, tend |-> steps * dt ]
    /\ num_species = 1
    /\ sp = [r \in 0 .. sz - 1 |-> 0]
    /\ particle_systems = [r \in 0 .. sz - 1 |-> <<BoundEntry>>]
    /\ files = {}
    /\ particle_names = [i \in 0 .. 0 |-> 0]
    /\ csv = [n \in Names |-> << >>]
    /\ dirs = {0}
    /\ printed = {}
    /\ once = [r \in 0 .. sz - 1 |-> NoOnce]

InitWith(sz, N, steps, counts, pos) ==
    InitKernel(sz, N, steps, [r \in 0 .. sz - 1 |-> NewShell(pos[r])])

\* the shells of the ranks: rank r holds counts[r] consecutive entries of all
Split(all, counts, sz) ==
    [r \in 0 .. sz - 1 |->
        LET displ == SumFn(counts, 0 .. r - 1)
        IN  [i \in 1 .. counts[r] |-> all[displ + i]]]

\* main: N particles split evenly over the ranks, any positions
Init ==
    \E sz \in 1 .. MaxSize, N \in 1 .. MaxN :
      \E all \in [1 .. N -> Positions] :
        InitWith(sz, N, MaxSteps, [r \in 0 .. sz - 1 |-> LocalN(N, sz, r)],
                 Split(all, [r \in 0 .. sz - 1 |-> LocalN(N, sz, r)], sz))

\* any assignment of N particles to the ranks (any order, any local counts),
\* followed through the initial calls and one iteration of the main loop
InitAny ==
    \E sz \in 1 .. MaxSize, N \in 0 .. MaxN :
      \E all \in [1 .. N -> Positions], counts \in [0 .. sz - 1 -> 0 .. N] :
        /\ SumFn(counts, 0 .. sz - 1) = N
        /\ InitWith(sz, N, 1, counts, Split(all, counts, sz))

\* n particles at the point p
AllAt_Point(n, p) == [i \in 1 .. n |-> p]

\* the scenarios S1 .. S5, each followed through the initial calls and (S5
\* excepted) one iteration of the main loop; the pair (size, N) tells them
\* apart
\*   S1: size 1, positions (1,0,0), (2,0,0), (3,0,0), (4,0,0), q = 1
\*   S2: size 2, rank 0 owns r2 = {16, 4}, rank 1 owns r2 = {1, 9}, q = 1
\*   S3: size 4, no particle
\*   S4: size 2, two particles at the origin, on any ranks, each at rest or
\*       with vx = 1
\*   S5: size 3, nine particles of r2 = 1, on any ranks
InitScenario ==
    \/ InitKernel(1, 4, 1,
         [r \in {0} |-> ShellOf(<< <<1, 0, 0>>, <<2, 0, 0>>,
                                   <<3, 0, 0>>, <<4, 0, 0>> >>, 1)])
    \/ \E own0 \in { << <<4, 0, 0>>, <<2, 0, 0>> >>,
                      << <<2, 0, 0>>, <<4, 0, 0>> >> },
           own1 \in { << <<1, 0, 0>>, <<3, 0, 0>> >>,
                      << <<3, 0, 0>>, <<1, 0, 0>> >> } :
         InitKernel(2, 4, 1,
           [r \in 0 .. 1 |-> ShellOf(IF r = 0 THEN own0 ELSE own1, 1)])
    \/ InitKernel(4, 0, 1, [r \in 0 .. 3 |-> ShellOf(<<>>, 1)])
    \/ \E counts \in [0 .. 1 -> 0 .. 2], vel \in [1 .. 2 -> {0, 1}] :
         /\ SumFn(counts, 0 .. 1) = 2
         /\ InitKernel(2, 2, 1,
              [r \in 0 .. 1 |->
                 [NewShell(AllAt_Point(counts[r], <<0, 0, 0>>))
                    EXCEPT !.vx = Split(vel, counts, 2)[r]]])
    \/ \E counts \in [0 .. 2 -> 0 .. 9] :
         /\ SumFn(counts, 0 .. 2) = 9
         /\ InitKernel(3, 9, 0,
              [r \in 0 .. 2 |-> ShellOf(AllAt_Point(counts[r], <<1, 0, 0>>), 1)])

\* main's split of N particles of a species whose line gives an iqom of
\* either sign, followed through the initial calls and one iteration of the
\* main loop
InitSigned ==
    \E sz \in 1 .. MaxSize, N \in 1 .. MaxN, iq \in {-2, iqom} :
      \E all \in [1 .. N -> Positions] :
        InitKernel(sz, N, 1,
          [r \in 0 .. sz - 1 |->
             [NewShell(Split(all, [p \in 0 .. sz - 1 |-> LocalN(N, sz, p)],
                             sz)[r])
                EXCEPT !.iqom = iq]])

\* three ranks and four particles, each at the origin or at the rim of the
\* sphere, on any ranks: the inputs in which the scan of the histogram
\* reaches the last bin before all splitters are emitted
InitSkew ==
    \E all \in [1 .. 4 -> { <<0, 0, 0>>, <<R, 0, 0>> }],
       counts \in [0 .. 2 -> 0 .. 4] :
      /\ SumFn(counts, 0 .. 2) = 4
      /\ InitWith(3, 4, 1, counts, Split(all, counts, 3))

\* ------------------------------------------- sortParticlesParallel (C3)
RECURSIVE SortedFrom(_, _)
\* the orders std::sort may leave the indices of the set left in: r2
\* non-decreasing.  Orders that differ only in the places of particles equal
\* in all nine fields give the same arrays; the one that keeps the index
\* order of such particles stands for them.
SortedFrom(s, left) ==
    IF left = {} THEN { <<>> }
    ELSE UNION { { <<i>> \o rest : rest \in SortedFrom(s, left \ {i}) }
                 : i \in { k \in left :
                             /\ \A j \in left : ~ (s.r2[j] < s.r2[k])
                             /\ \A j \in left :
                                  Rec(s, j) = Rec(s, k) => k <= j } }

\* mutation of SortedIndices: the indices are left as they are
SortedIndices_Unsorted(s) == { [i \in 1 .. s.n_particles |-> i] }

\* the orders std::sort may leave the indices of shell s in
SortedIndices(s) == SortedFrom(s, 1 .. s.n_particles)

\* the lambda reorder: tmp[i] = arr[indices[i]]
reorder(arr, indices) == [i \in 1 .. Len(indices) |-> arr[indices[i]]]

ReorderShell(s, indices) ==
    [ x  |-> reorder(s.x, indices),  y  |-> reorder(s.y, indices),
      z  |-> reorder(s.z, indices),  vx |-> reorder(s.vx, indices),
      vy |-> reorder(s.vy, indices), vz |-> reorder(s.vz, indices),
      q  |-> reorder(s.q, indices),  Er |-> reorder(s.Er, indices),
      r2 |-> reorder(s.r2, indices), n_particles |-> s.n_particles,
      iqom |-> s.iqom ]

\* mutation of SortLocal: a rank without particles returns at once
SortLocal_EmptyReturns(r) ==
    /\ pc[r] = "sort"
    /\ LET n == ps[r].n_particles
           s1 == computeSquareRadius(ps[r])
       IN  IF n = 0
           THEN /\ pc' = [pc EXCEPT ![r] = "field"]
                /\ pre' = [pre EXCEPT ![r] = NoPre]
                /\ UNCHANGED <<ps, scratch>>
           ELSE \E indices \in SortedIndices(s1) :
                  LET s2 == ReorderShell(s1, indices)
                  IN  /\ ps' = [ps EXCEPT ![r] = s2]
                      /\ pre' = [pre EXCEPT ![r] =
                           [ recs |-> BagOfSeq(Records(s1)),
                             sorted |-> \A i \in 1 .. n - 1 :
                                          s1.r2[i] <= s1.r2[i + 1] ]]
                      /\ IF size = 1
                         THEN /\ pc' = [pc EXCEPT ![r] = "field"]
                              /\ UNCHANGED scratch
                         ELSE /\ pc' = [pc EXCEPT ![r] = "ar_min"]
                              /\ scratch' = [scratch EXCEPT ![r] =
                                   [ r2_min_local |->
                                       IF n > 0 THEN s2.r2[1] ELSE DBL_MAX,
                                     r2_max_local |->
                                       IF n > 0 THEN s2.r2[n] ELSE - DBL_MAX ]]
    /\ UNCHANGED <<size, n_total, Nt, it, drv>>

\* Steps 1-2 and the local min/max, up to the first MPI_Allreduce
SortLocal(r) ==
    /\ pc[r] = "sort"
    /\ LET n == ps[r].n_particles
           s1 == computeSquareRadius(ps[r])
       IN  IF n = 0 /\ size = 1
           THEN /\ pc' = [pc EXCEPT ![r] = "field"]
                /\ pre' = [pre EXCEPT ![r] = NoPre]
                /\ UNCHANGED <<ps, scratch>>
           ELSE \E indices \in SortedIndices(s1) :
                  LET s2 == ReorderShell(s1, indices)
                  IN  /\ ps' = [ps EXCEPT ![r] = s2]
                      /\ pre' = [pre EXCEPT ![r] =
                           [ recs |-> BagOfSeq(Records(s1)),
                             sorted |-> \A i \in 1 .. n - 1 :
                                          s1.r2[i] <= s1.r2[i + 1] ]]
                      /\ IF size = 1
                         THEN /\ pc' = [pc EXCEPT ![r] = "field"]
                              /\ UNCHANGED scratch
                         ELSE /\ pc' = [pc EXCEPT ![r] = "ar_min"]
                              /\ scratch' = [scratch EXCEPT ![r] =
                                   [ r2_min_local |->
                                       IF n > 0 THEN s2.r2[1] ELSE DBL_MAX,
                                     r2_max_local |->
                                       IF n > 0 THEN s2.r2[n] ELSE - DBL_MAX ]]
    /\ UNCHANGED <<size, n_total, Nt, it, drv>>

AllAt(label) == \A r \in Ranks : pc[r] = label

\* MPI_Allreduce(&r2_min_local, &r2_min_global, 1, MPI_DOUBLE, MPI_MIN)
AllreduceMin ==
    /\ AllAt("ar_min")
    /\ LET m == Min({scratch[r].r2_min_local : r \in Ranks})
       IN  scratch' = [r \in Ranks |->
             [ r2_max_local |-> scratch[r].r2_max_local, r2_min_global |-> m ]]
    /\ pc' = [r \in Ranks |-> "ar_max"]
    /\ UNCHANGED <<size, n_total, Nt, ps, it, pre, drv>>

\* mutation of AllreduceMax: every rank keeps its local maximum
AllreduceMax_Local ==
    /\ AllAt("ar_max")
    /\ scratch' = [r \in Ranks |->
         [ r2_min_global |-> scratch[r].r2_min_global,
           r2_max_global |-> scratch[r].r2_max_local ]]
    /\ pc' = [r \in Ranks |-> "hist"]
    /\ UNCHANGED <<size, n_total, Nt, ps, it, pre, drv>>

\* MPI_Allreduce(&r2_max_local, &r2_max_global, 1, MPI_DOUBLE, MPI_MAX)
AllreduceMax ==
    /\ AllAt("ar_max")
    /\ LET m == Max({scratch[r].r2_max_local : r \in Ranks})
       IN  scratch' = [r \in Ranks |->
             [ r2_min_global |-> scratch[r].r2_min_global, r2_max_global |-> m ]]
    /\ pc' = [r \in Ranks |-> "hist"]
    /\ UNCHANGED <<size, n_total, Nt, ps, it, pre, drv>>

\* bin = clamp((int)((r2 - r2_min_global) / bin_width), 0, NUM_BINS - 1)
Bin(r2v, mn, mx) ==
    LET b == ((r2v - mn) * NUM_BINS) \div (mx - mn)
    IN  Max({0, Min({b, NUM_BINS - 1})})

\* the widening of an empty range and the local histogram; a histogram is
\* the bag of the bin numbers (the count of bin b is CopiesIn(b, hist))
Histogram(r) ==
    /\ pc[r] = "hist"
    /\ LET mn == scratch[r].r2_min_global
           mx == IF scratch[r].r2_max_global - mn < 1
                 THEN mn + 1 ELSE scratch[r].r2_max_global
       IN  scratch' = [scratch EXCEPT ![r] =
             [ r2_min_global |-> mn, r2_max_global |-> mx,
               local_hist |-> BagOfSeq([i \in 1 .. ps[r].n_particles |->
                                           Bin(ps[r].r2[i], mn, mx)]) ]]
    /\ pc' = [pc EXCEPT ![r] = "ar_hist"]
    /\ UNCHANGED <<size, n_total, Nt, ps, it, pre, drv>>

RECURSIVE BagSum(_, _)
BagSum(f, S) == IF S = {} THEN EmptyBag
                ELSE LET k == Min(S) IN f[k] (+) BagSum(f, S \ {k})

\* mutation of AllreduceHist: every rank keeps its local histogram
AllreduceHist_Local ==
    /\ AllAt("ar_hist")
    /\ scratch' = [r \in Ranks |->
         [ r2_min_global |-> scratch[r].r2_min_global,
           r2_max_global |-> scratch[r].r2_max_global,
           global_hist |-> scratch[r].local_hist ]]
    /\ pc' = [r \in Ranks |-> "partition"]
    /\ UNCHANGED <<size, n_total, Nt, ps, it, pre, drv>>

\* MPI_Allreduce(local_hist, global_hist, NUM_BINS, MPI_LONG_LONG, MPI_SUM)
AllreduceHist ==
    /\ AllAt("ar_hist")
    /\ LET g == BagSum([r \in Ranks |-> scratch[r].local_hist], Ranks)
       IN  scratch' = [r \in Ranks |->
             [ r2_min_global |-> scratch[r].r2_min_global,
               r2_max_global |-> scratch[r].r2_max_global,
               global_hist |-> g ]]
    /\ pc' = [r \in Ranks |-> "partition"]
    /\ UNCHANGED <<size, n_total, Nt, ps, it, pre, drv>>

\* cumsum after bin b of the splitter loop
CumHist(hist, b) ==
    SumFn([c \in BagToSet(hist) |-> IF c <= b THEN CopiesIn(c, hist) ELSE 0],
          BagToSet(hist))

RECURSIVE SplitterBin(_, _, _)
\* the bin at which the loop emits splitter k, NUM_BINS when it emits none:
\* the first bin b after the bin of splitter k-1 at which cumsum has reached
\* target_per_rank * (k + 1).  cumsum grows only at a non-empty bin, so b is
\* either the very next bin or a non-empty one.
SplitterBin(hist, target, k) ==
    LET prev == IF k = 0 THEN -1 ELSE SplitterBin(hist, target, k - 1)
        reached == { b \in ({prev + 1} \cup BagToSet(hist)) :
                       /\ prev < b /\ b < NUM_BINS
                       /\ CumHist(hist, b) >= target * (k + 1) }
    IN  IF reached = {} THEN NUM_BINS ELSE Min(reached)

\* mutation of Splitters: target_per_rank by floor division
Splitters_FloorTarget(hist, mn, mx, sz) ==
    LET total  == BagCardinality(hist)
        target == total \div sz
    IN  [k \in 0 .. sz - 2 |->
           LET b == SplitterBin(hist, target, k)
           IN  IF b < NUM_BINS THEN NUM_BINS * mn + (b + 1) * (mx - mn)
               ELSE NUM_BINS * mx]

\* mutation of Splitters: the splitters left over are set to r2_min_global
Splitters_FillMin(hist, mn, mx, sz) ==
    LET total  == BagCardinality(hist)
        target == (total + sz - 1) \div sz
    IN  [k \in 0 .. sz - 2 |->
           LET b == SplitterBin(hist, target, k)
           IN  IF b < NUM_BINS THEN NUM_BINS * mn + (b + 1) * (mx - mn)
               ELSE NUM_BINS * mn]

\* splitters (times NUM_BINS), numbered 0 .. size-2
Splitters(hist, mn, mx, sz) ==
    LET total  == BagCardinality(hist)
        target == (total + sz - 1) \div sz
    IN  [k \in 0 .. sz - 2 |->
           LET b == SplitterBin(hist, target, k)
           IN  IF b < NUM_BINS THEN NUM_BINS * mn + (b + 1) * (mx - mn)
               ELSE NUM_BINS * mx]

\* mutation of Dest: the search counts from the wrong end
Dest_Reversed(splitters, sz, r2v) ==
    LET ge == { k \in 0 .. sz - 2 : ~ (splitters[k] < NUM_BINS * r2v) }
    IN  IF ge = {} THEN 0 ELSE sz - 1 - Min(ge)

\* mutation of Dest: std::upper_bound in place of std::lower_bound
Dest_UpperBound(splitters, sz, r2v) ==
    LET ge == { k \in 0 .. sz - 2 : NUM_BINS * r2v < splitters[k] }
    IN  IF ge = {} THEN sz - 1 ELSE Min(ge)

\* std::lower_bound(splitters, r2) - splitters.begin()
Dest(splitters, sz, r2v) ==
    LET ge == { k \in 0 .. sz - 2 : ~ (splitters[k] < NUM_BINS * r2v) }
    IN  IF ge = {} THEN sz - 1 ELSE Min(ge)

\* Step 4: splitters, buckets and send_counts
Partition(r) ==
    /\ pc[r] = "partition"
    /\ LET sc == scratch[r]
           splitters == Splitters(sc.global_hist, sc.r2_min_global,
                                  sc.r2_max_global, size)
           buckets == [d \in Ranks |->
                         SelectSeq([i \in 1 .. ps[r].n_particles |-> i],
                                   LAMBDA i : Dest(splitters, size, ps[r].r2[i]) = d)]
       IN  scratch' = [scratch EXCEPT ![r] =
             [ splitters |-> splitters,
               buckets |-> buckets,
               send_counts |-> [d \in Ranks |-> Len(buckets[d])] ]]
    /\ pc' = [pc EXCEPT ![r] = "a2a"]
    /\ UNCHANGED <<size, n_total, Nt, ps, it, pre, drv>>

\* MPI_Alltoall(send_counts, 1, MPI_INT, recv_counts, 1, MPI_INT)
Alltoall ==
    /\ AllAt("a2a")
    /\ scratch' = [r \in Ranks |->
         [ splitters |-> scratch[r].splitters,
           buckets |-> scratch[r].buckets,
           send_counts |-> scratch[r].send_counts,
           recv_counts |-> [src \in Ranks |-> scratch[src].send_counts[r]] ]]
    /\ pc' = [r \in Ranks |-> "pack"]
    /\ UNCHANGED <<size, n_total, Nt, ps, it, pre, drv>>

\* send_displs / recv_displs: displs[i] = displs[i-1] + counts[i-1]
Displs(counts) == [d \in DOMAIN counts |-> SumFn(counts, 0 .. d - 1)]

\* Step 6: the interleaved send buffer, 9 doubles per particle, in
\* destination order
Pack(r) ==
    /\ pc[r] = "pack"
    /\ LET sc == scratch[r]
           send_buf == Concat([d \in Ranks |->
                          Concat([k \in 1 .. Len(sc.buckets[d]) |->
                                     Rec(ps[r], sc.buckets[d][k])],
                                 1 .. Len(sc.buckets[d]))],
                        Ranks)
       IN  scratch' = [scratch EXCEPT ![r] =
             [ splitters |-> sc.splitters,
               send_counts |-> sc.send_counts,
               recv_counts |-> sc.recv_counts,
               send_displs |-> Displs(sc.send_counts),
               recv_displs |-> Displs(sc.recv_counts),
               total_recv |-> SumFn(sc.recv_counts, Ranks),
               send_buf |-> send_buf ]]
    /\ pc' = [pc EXCEPT ![r] = "a2av"]
    /\ UNCHANGED <<size, n_total, Nt, ps, it, pre, drv>>

\* what MPI_Alltoallv leaves in the receive buffer of rank r: the block of
\* recv_counts_packed[src] doubles that src sends to r from its
\* send_displs_packed[r], stored at recv_displs_packed[src]
RecvBuf(r) ==
    LET me == scratch[r]
    IN  [j \in 1 .. me.total_recv * num_fields |->
           LET src == CHOOSE c \in Ranks :
                        /\ me.recv_displs[c] * num_fields < j
                        /\ j <= (me.recv_displs[c] + me.recv_counts[c]) * num_fields
               k == j - me.recv_displs[src] * num_fields
           IN  scratch[src].send_buf[scratch[src].send_displs[r] * num_fields + k]]

\* Step 7: MPI_Alltoallv of the packed records
Alltoallv ==
    /\ AllAt("a2av")
    /\ scratch' = [r \in Ranks |->
         [ splitters |-> scratch[r].splitters,
           recv_counts |-> scratch[r].recv_counts,
           recv_displs |-> scratch[r].recv_displs,
           total_recv |-> scratch[r].total_recv,
           recv_buf |-> RecvBuf(r) ]]
    /\ pc' = [r \in Ranks |-> "merge"]
    /\ UNCHANGED <<size, n_total, Nt, ps, it, pre, drv>>

\* mutation of Unpack: the field offset is left out
Unpack_NoOffset(recv_buf, total_recv, f) ==
    [i \in 1 .. total_recv |-> recv_buf[(i - 1) * num_fields + 1]]

\* Step 8: field f (0 .. 8) of the received records
Unpack(recv_buf, total_recv, f) ==
    [i \in 1 .. total_recv |-> recv_buf[(i - 1) * num_fields + f + 1]]

\* mutation of MergeOrders: the chunks are taken in the order received
MergeOrders_NoMerge(recv, last, head) ==
    { [i \in 1 .. recv.n_particles |-> i] }

RECURSIVE MergeOrders(_, _, _)
\* Step 9: the orders the priority-queue loop can produce.  head[c] is the
\* element of chunk c that is in the queue (0: none), last[c] the last
\* element of chunk c.  The queue is ordered by r2 alone (operator>), so
\* top() is an element than which no queued element has a smaller r2.
\* Of queued elements equal in all nine fields the one of the lowest chunk
\* stands for the others (the merged arrays are the same).
MergeOrders(recv, last, head) ==
    LET inq == { c \in DOMAIN head : head[c] # 0 }
        tops == { c \in inq :
                    /\ \A d \in inq :
                         ~ (recv.r2[head[c]] > recv.r2[head[d]])
                    /\ \A d \in inq :
                         Rec(recv, head[d]) = Rec(recv, head[c]) => c <= d }
    IN  IF inq = {} THEN { <<>> }
        ELSE UNION { { <<head[c]>> \o rest :
                         rest \in MergeOrders(recv, last,
                                    [head EXCEPT ![c] = IF head[c] < last[c]
                                                        THEN head[c] + 1 ELSE 0]) }
                     : c \in tops }

\* Steps 8-9: unpack and k-way merge
Merge(r) ==
    /\ pc[r] = "merge"
    /\ LET sc == scratch[r]
           recv == [ x  |-> Unpack(sc.recv_buf, sc.total_recv, 0),
                     y  |-> Unpack(sc.recv_buf, sc.total_recv, 1),
                     z  |-> Unpack(sc.recv_buf, sc.total_recv, 2),
                     vx |-> Unpack(sc.recv_buf, sc.total_recv, 3),
                     vy |-> Unpack(sc.recv_buf, sc.total_recv, 4),
                     vz |-> Unpack(sc.recv_buf, sc.total_recv, 5),
                     q  |-> Unpack(sc.recv_buf, sc.total_recv, 6),
                     Er |-> Unpack(sc.recv_buf, sc.total_recv, 7),
                     r2 |-> Unpack(sc.recv_buf, sc.total_recv, 8),
                     n_particles |-> sc.total_recv ]
           last == [c \in Ranks |-> sc.recv_displs[c] + sc.recv_counts[c]]
           head == [c \in Ranks |-> IF sc.recv_counts[c] > 0
                                    THEN sc.recv_displs[c] + 1 ELSE 0]
       IN  \E merge_order \in MergeOrders(recv, last, head) :
             scratch' = [scratch EXCEPT ![r] =
               [ splitters |-> sc.splitters,
                 total_recv |-> sc.total_recv,
                 recv_counts |-> sc.recv_counts,
                 recv |-> recv,
                 merge_order |-> merge_order ]]
    /\ pc' = [pc EXCEPT ![r] = "install"]
    /\ UNCHANGED <<size, n_total, Nt, ps, it, pre, drv>>

\* Step 10: ps.resize(total_recv) and the gather through merge_order
Install(r) ==
    /\ pc[r] = "install"
    /\ LET sc == scratch[r]
           s == resize(ps[r], sc.total_recv)
           gather(arr) == [i \in 1 .. sc.total_recv |-> arr[sc.merge_order[i]]]
       IN  ps' = [ps EXCEPT ![r] =
             [ x  |-> gather(sc.recv.x),  y  |-> gather(sc.recv.y),
               z  |-> gather(sc.recv.z),  vx |-> gather(sc.recv.vx),
               vy |-> gather(sc.recv.vy), vz |-> gather(sc.recv.vz),
               q  |-> gather(sc.recv.q),  Er |-> gather(sc.recv.Er),
               r2 |-> gather(sc.recv.r2), n_particles |-> s.n_particles,
               iqom |-> s.iqom ]]
    /\ scratch' = [scratch EXCEPT ![r] = NoScratch]
    /\ pc' = [pc EXCEPT ![r] = "field"]
    /\ UNCHANGED <<size, n_total, Nt, it, pre, drv>>

\* -------------------------------------- updateElectricFieldParallel (C4)
\* Step 1: local_sum, the charge rank r holds
FieldLocalSum(r) == SumSeq(ps[r].q)

\* mutation of Exscan: the inclusive scan, MPI_Scan
Exscan_Scan ==
    /\ AllAt("field")
    /\ \E undef \in {0, 1} :
         scratch' = [r \in Ranks |->
           [ prefix_sum |-> IF r = 0 THEN undef
                            ELSE SumFn([p \in Ranks |-> FieldLocalSum(p)],
                                       0 .. r) ]]
    /\ pre' = [r \in Ranks |-> NoPre]
    /\ pc' = [r \in Ranks |-> "sweep"]
    /\ UNCHANGED <<size, n_total, Nt, ps, it, drv>>

\* Steps 1-2: every rank sums its charges and calls
\* MPI_Exscan(&local_sum, &prefix_sum, 1, MPI_DOUBLE, MPI_SUM): the sum over
\* the lower ranks; what it leaves in prefix_sum on rank 0 is undefined
Exscan ==
    /\ AllAt("field")
    /\ \E undef \in {0, 1} :
         scratch' = [r \in Ranks |->
           [ prefix_sum |-> IF r = 0 THEN undef
                            ELSE SumFn([p \in Ranks |-> FieldLocalSum(p)],
                                       0 .. r - 1) ]]
    /\ pre' = [r \in Ranks |-> NoPre]
    /\ pc' = [r \in Ranks |-> "sweep"]
    /\ UNCHANGED <<size, n_total, Nt, ps, it, drv>>

\* mutation of FieldEr: the particle's own charge is left out
FieldEr_Exclusive(q, r2, prefix_sum) ==
    [i \in 1 .. Len(q) |->
       LET cumulative == prefix_sum + SumSeq(SubSeq(q, 1, i - 1))
       IN  IF r2[i] > 0 THEN [num |-> cumulative, den |-> r2[i]] ELSE ErZero]

\* mutation of FieldEr: no zero-radius guard
FieldEr_NoGuard(q, r2, prefix_sum) ==
    [i \in 1 .. Len(q) |->
       LET cumulative == prefix_sum + SumSeq(SubSeq(q, 1, i))
       IN  [num |-> cumulative, den |-> r2[i]]]

\* Step 3: Er[i] = cumulative / r2[i], or 0 when r2[i] <= 1e-30
FieldEr(q, r2, prefix_sum) ==
    [i \in 1 .. Len(q) |->
       LET cumulative == prefix_sum + SumSeq(SubSeq(q, 1, i))
       IN  IF r2[i] > 0 THEN [num |-> cumulative, den |-> r2[i]] ELSE ErZero]

\* mutation of FieldSweep: the new field is added to the value Er holds
FieldSweep_Accumulates(r) ==
    /\ pc[r] = "sweep"
    /\ LET prefix_sum == IF r = 0 THEN 0 ELSE scratch[r].prefix_sum
           Er == FieldEr(ps[r].q, ps[r].r2, prefix_sum)
       IN  ps' = [ps EXCEPT ![r].Er =
                    [i \in 1 .. Len(Er) |->
                       [Er[i] EXCEPT !.num = Er[i].num + ps[r].Er[i].num]]]
    /\ scratch' = [scratch EXCEPT ![r] = NoScratch]
    /\ pc' = [pc EXCEPT ![r] = IF it[r] = -1 THEN "energy" ELSE "move"]
    /\ UNCHANGED <<size, n_total, Nt, it, pre, drv>>

\* Step 3: the sweep over the local particles, and the return to main
FieldSweep(r) ==
    /\ pc[r] = "sweep"
    /\ LET prefix_sum == IF r = 0 THEN 0 ELSE scratch[r].prefix_sum
       IN  ps' = [ps EXCEPT ![r].Er = FieldEr(ps[r].q, ps[r].r2, prefix_sum)]
    /\ scratch' = [scratch EXCEPT ![r] = NoScratch]
    /\ pc' = [pc EXCEPT ![r] = IF it[r] = -1 THEN "energy" ELSE "move"]
    /\ UNCHANGED <<size, n_total, Nt, it, pre, drv>>

\* updateElectricFieldParallel(ps, mpi) called again as soon as it has
\* returned, once on each rank: the shell the first call left is kept, and
\* the iteration the calls are made in
FieldAgain(r) ==
    /\ pc[r] = (IF it[r] = -1 THEN "energy" ELSE "move")
    /\ ~ once[r].called
    /\ once' = [once EXCEPT ![r] =
                  [ called |-> TRUE, at |-> it[r], shell |-> ps[r] ]]
    /\ pc' = [pc EXCEPT ![r] = "field"]
    /\ UNCHANGED <<size, n_total, Nt, ps, it, scratch, pre, flags, config,
                   num_species, sp, particle_systems, files, dirs, printed,
                   csv, particle_names>>

\* ---------------------------------------------------- updatePositions (C5)
Abs(a) == IF a < 0 THEN -a ELSE a

\* a / (b * sqrt(r2v)) rounded toward zero, for b > 0 and r2v > 0
QuotSqrt(a, b, r2v) ==
    LET m == Max({ k \in 0 .. (Abs(a) \div b) : k * k * b * b * r2v <= a * a })
    IN  IF a < 0 THEN -m ELSE m

\* the new velocity component: v + dt * qom * Er * c * inv_r when r > 1e-15,
\* with qom = 1.0 / ps.iqom of either sign
NewVel(v, c, Er, r2v, iq) ==
    IF r2v > 0
    THEN IF iq > 0
         THEN v + QuotSqrt(dt * Er.num * c, iq * Er.den, r2v)
         ELSE v + QuotSqrt(-(dt * Er.num * c), (-iq) * Er.den, r2v)
    ELSE v

\* mutation of updatePositions: the position is advanced with the velocity
\* of before the update
updatePositions_OldVelocity(s) ==
    LET n == s.n_particles
        vx == [i \in 1 .. n |-> NewVel(s.vx[i], s.x[i], s.Er[i], s.r2[i],
                                      s.iqom)]
        vy == [i \in 1 .. n |-> NewVel(s.vy[i], s.y[i], s.Er[i], s.r2[i],
                                      s.iqom)]
        vz == [i \in 1 .. n |-> NewVel(s.vz[i], s.z[i], s.Er[i], s.r2[i],
                                      s.iqom)]
    IN  [s EXCEPT !.vx = vx, !.vy = vy, !.vz = vz,
                  !.x = [i \in 1 .. n |-> s.x[i] + dt * s.vx[i]],
                  !.y = [i \in 1 .. n |-> s.y[i] + dt * s.vy[i]],
                  !.z = [i \in 1 .. n |-> s.z[i] + dt * s.vz[i]]]

\* updatePositions(ps, dt)
updatePositions(s) ==
    LET n == s.n_particles
        vx == [i \in 1 .. n |-> NewVel(s.vx[i], s.x[i], s.Er[i], s.r2[i],
                                      s.iqom)]
        vy == [i \in 1 .. n |-> NewVel(s.vy[i], s.y[i], s.Er[i], s.r2[i],
                                      s.iqom)]
        vz == [i \in 1 .. n |-> NewVel(s.vz[i], s.z[i], s.Er[i], s.r2[i],
                                      s.iqom)]
    IN  [s EXCEPT !.vx = vx, !.vy = vy, !.vz = vz,
                  !.x = [i \in 1 .. n |-> s.x[i] + dt * vx[i]],
                  !.y = [i \in 1 .. n |-> s.y[i] + dt * vy[i]],
                  !.z = [i \in 1 .. n |-> s.z[i] + dt * vz[i]]]

\* mutation of NextIteration: the timestep starts at the field update
NextIteration_SkipSort(r) == IF it[r] + 1 < Nt THEN "field" ELSE "done"

\* mutation of NextIteration: the test of the time loop is it <= Nt
NextIteration_OneMore(r) == IF it[r] + 1 <= Nt THEN "sort" ELSE "done"

\* for (int it = 0; it < Nt; it++): the test of the time loop
NextIteration(r) == IF it[r] + 1 < Nt THEN "sort" ELSE "done"

\* mutation of UpdatePositions: the energy is computed in every timestep
UpdatePositions_EveryStep(r) ==
    /\ pc[r] = "move"
    /\ ps' = [ps EXCEPT ![r] = updatePositions(ps[r])]
    /\ pc' = [pc EXCEPT ![r] =
         IF TRUE
         THEN IF flags.save_positions_flag = 1 THEN "gather" ELSE "energy"
         ELSE "next"]
    /\ UNCHANGED <<size, n_total, Nt, it, scratch, pre, drv>>

\* mutation of UpdatePositions: r2 is computed again from the new position
UpdatePositions_Refresh(r) ==
    /\ pc[r] = "move"
    /\ ps' = [ps EXCEPT ![r] = computeSquareRadius(updatePositions(ps[r]))]
    /\ pc' = [pc EXCEPT ![r] =
         IF it[r] % SAVE_INTERVAL = 0
         THEN IF flags.save_positions_flag = 1 THEN "gather" ELSE "energy"
         ELSE "next"]
    /\ UNCHANGED <<size, n_total, Nt, it, scratch, pre, drv>>

\* main: updatePositions(ps, dt), then the tests of the position dump and of
\* the save interval
UpdatePositions(r) ==
    /\ pc[r] = "move"
    /\ ps' = [ps EXCEPT ![r] = updatePositions(ps[r])]
    /\ pc' = [pc EXCEPT ![r] =
         IF it[r] % SAVE_INTERVAL = 0
         THEN IF flags.save_positions_flag = 1 THEN "gather" ELSE "energy"
         ELSE "next"]
    /\ UNCHANGED <<size, n_total, Nt, it, scratch, pre, drv>>

\* ------------------------------------------------ saveParticlePositions
\* MPI_Gather of the counts and the three MPI_Gatherv of x, y, z to rank 0
GatherPositions ==
    /\ AllAt("gather")
    /\ scratch' = [r \in Ranks |->
         IF r = 0
         THEN [ total_n |-> SumFn([p \in Ranks |-> ps[p].n_particles], Ranks),
                all_x |-> Concat([p \in Ranks |-> ps[p].x], Ranks),
                all_y |-> Concat([p \in Ranks |-> ps[p].y], Ranks),
                all_z |-> Concat([p \in Ranks |-> ps[p].z], Ranks) ]
         ELSE NoScratch]
    /\ pc' = [r \in Ranks |-> "write_pos"]
    /\ UNCHANGED <<size, n_total, Nt, ps, it, pre, drv>>

\* the write of the dump, if (mpi.rank == 0), and the return to main
WritePositions(r) ==
    /\ pc[r] = "write_pos"
    /\ files' = IF r = 0
                THEN files \cup {[ rank |-> r, step |-> it[r],
                                   name |-> <<"positions", sp[r], it[r]>> ]}
                ELSE files
    /\ scratch' = [scratch EXCEPT ![r] = NoScratch]
    /\ pc' = [pc EXCEPT ![r] = "energy"]
    /\ UNCHANGED <<size, n_total, Nt, ps, it, pre, flags, config, num_species,
                   sp, particle_systems, dirs, printed, once,
                   csv, particle_names>>

\* ------------------------------------------------ computeEnergyParallel
\* local_kinetic (twice its value: the factor 0.5 is left out)
EnergyLocal(r) ==
    /\ pc[r] = "energy"
    /\ scratch' = [scratch EXCEPT ![r] =
         [ local_kinetic |->
             SumSeq([i \in 1 .. ps[r].n_particles |->
                       Abs(ps[r].iqom * ps[r].q[i])
                         * (ps[r].vx[i] * ps[r].vx[i] + ps[r].vy[i] * ps[r].vy[i]
                              + ps[r].vz[i] * ps[r].vz[i])]) ]]
    /\ pc' = [pc EXCEPT ![r] = "ar_energy"]
    /\ UNCHANGED <<size, n_total, Nt, ps, it, pre, drv>>

\* the collectives of computeEnergyParallel, the first of which is
\* MPI_Allreduce(&local_kinetic, &global_kinetic, 1, MPI_DOUBLE, MPI_SUM);
\* back in main, if (save_simulation_data_flag) leads to the CSV record,
\* in the loop by way of the MaxR2 report
AllreduceEnergy ==
    /\ AllAt("ar_energy")
    /\ LET g == SumFn([r \in Ranks |-> scratch[r].local_kinetic], Ranks)
       IN  scratch' = [r \in Ranks |->
             IF it[r] # -1 /\ flags.save_simulation_data_flag = 1
             THEN [ global_kinetic |-> g ] ELSE NoScratch]
    /\ pc' = [r \in Ranks |->
         IF flags.save_simulation_data_flag = 1
         THEN IF it[r] = -1 THEN "save" ELSE "maxr2"
         ELSE "next"]
    /\ UNCHANGED <<size, n_total, Nt, ps, it, pre, drv>>

\* ParticleSystem::getMaxRadiusSquared
getMaxRadiusSquared(s) == Max({0} \cup { s.r2[i] : i \in 1 .. s.n_particles })

\* main: local_max_r2 = ps.getMaxRadiusSquared()
MaxR2Local(r) ==
    /\ pc[r] = "maxr2"
    /\ scratch' = [scratch EXCEPT ![r] =
         [ local_max_r2 |-> getMaxRadiusSquared(ps[r]) ]]
    /\ pc' = [pc EXCEPT ![r] = "ar_maxr2"]
    /\ UNCHANGED <<size, n_total, Nt, ps, it, pre, drv>>

\* main: MPI_Allreduce(&local_max_r2, &global_max_r2, 1, MPI_DOUBLE, MPI_MAX)
AllreduceMaxR2 ==
    /\ AllAt("ar_maxr2")
    /\ scratch' = [r \in Ranks |-> NoScratch]
    /\ pc' = [r \in Ranks |-> "save"]
    /\ UNCHANGED <<size, n_total, Nt, ps, it, pre, drv>>

\* ------------------------------------------------------ saveSpeciesData
\* the lines of a CSV log: the header, or a data row with its time column
Header == [ header |-> TRUE, time |-> -1 ]
Row(time) == [ header |-> FALSE, time |-> time ]

\* the time argument of the call: 0.0 in the initialisation loop, it * dt in
\* the time loop
TimeOf(step) == IF step = -1 THEN 0 ELSE step * dt

\* the body of saveSpeciesData on rank 0: a time of 0.0 opens the file
\* truncating and writes the header, any other time opens it appending; the
\* data row follows
WriteRow(file, time) ==
    IF time = 0 THEN <<Header, Row(time)>>
    ELSE file \o <<Row(time)>>

\* mutation of SaveSpeciesData: every rank writes the record
SaveSpeciesData_AllRanks(r) ==
    /\ pc[r] = "save"
    /\ files' = IF FALSE THEN files
                ELSE files \cup {[ rank |-> r, step |-> it[r],
                                   name |-> <<"simulation_output", sp[r]>> ]}
    /\ csv' = [csv EXCEPT ![particle_names[sp[r]]] =
                        WriteRow(@, TimeOf(it[r]))]
    /\ pc' = [pc EXCEPT ![r] = "next"]
    /\ UNCHANGED <<size, n_total, Nt, ps, it, scratch, pre, flags, config,
                   num_species, sp, particle_systems, dirs, printed, once,
                   particle_names>>

\* if (mpi.rank != 0) return; otherwise one record goes to the CSV log of
\* the species (step -1: the record of the initial energy); the file is
\* the one named after the species
SaveSpeciesData(r) ==
    /\ pc[r] = "save"
    /\ files' = IF r # 0 THEN files
                ELSE files \cup {[ rank |-> r, step |-> it[r],
                                   name |-> <<"simulation_output", sp[r]>> ]}
    /\ csv' = IF r # 0 THEN csv
              ELSE [csv EXCEPT ![particle_names[sp[r]]] =
                        WriteRow(@, TimeOf(it[r]))]
    /\ pc' = [pc EXCEPT ![r] = "next"]
    /\ UNCHANGED <<size, n_total, Nt, ps, it, scratch, pre, flags, config,
                   num_species, sp, particle_systems, dirs, printed, once,
                   particle_names>>

\* ------------------------------------------ main: the ends of the loops
\* ParticleSystem& ps = *particle_systems[to]: the shell ps was bound to is
\* found in particle_systems again
Rebind(r, from, to) ==
    IF from = to
    THEN UNCHANGED <<ps, particle_systems>>
    ELSE /\ ps' = [ps EXCEPT ![r] = particle_systems[r][to + 1].shell]
         /\ particle_systems' = [particle_systems EXCEPT ![r] =
              [particle_systems[r] EXCEPT ![from + 1] = Parked(ps[r]),
                                          ![to + 1] = BoundEntry]]

\* the end of the body of a species loop: i++ and the loop test; at the end
\* of the initialisation loop the time loop is entered, at the end of the
\* species loop of a timestep rank 0 prints the energy error of a save step
EndOfBody(r) ==
    /\ pc[r] = "next"
    /\ IF sp[r] + 1 < num_species
       THEN /\ sp' = [sp EXCEPT ![r] = sp[r] + 1]
            /\ UNCHANGED <<it, printed>>
            /\ IF it[r] = -1
               THEN /\ pc' = [pc EXCEPT ![r] = "create"]
                    /\ particle_systems' = [particle_systems EXCEPT ![r] =
                         [particle_systems[r] EXCEPT ![sp[r] + 1] = Parked(ps[r])]]
                    /\ ps' = [ps EXCEPT ![r] = ShellOf(<<>>, 0)]
               ELSE /\ pc' = [pc EXCEPT ![r] = "sort"]
                    /\ Rebind(r, sp[r], sp[r] + 1)
       ELSE /\ sp' = [sp EXCEPT ![r] = 0]
            /\ it' = [it EXCEPT ![r] = it[r] + 1]
            /\ pc' = [pc EXCEPT ![r] = NextIteration(r)]
            /\ printed' = IF it[r] >= 0 /\ it[r] % SAVE_INTERVAL = 0 /\ r = 0
                          THEN printed \cup {[ rank |-> r, step |-> it[r] ]}
                          ELSE printed
            /\ Rebind(r, sp[r], 0)
    /\ UNCHANGED <<size, n_total, Nt, scratch, pre, flags, config,
                   num_species, files, dirs, once,
                   csv, particle_names>>

\* --------------------------------------------------- main: the start-up
\* the command lines: up to MaxArgs options after the input file
MaxArgs == 2

ArgLists == UNION { [1 .. k -> {"-p", "-s", "-e", "-n"}] : k \in 0 .. MaxArgs }

\* what the input file can leave in N, R, dt, tend: a value, or 0 when the
\* line is missing or gives 0
Configs == [ N : {0, 1}, R : {0, R}, dt : {0, dt}, tend : {0, MaxSteps * dt} ]


\* main from its first statement: the command line is parsed, the input file
\* is as it will be read
InitMain ==
    \E sz \in 1 .. MaxSize, args \in ArgLists, cfg \in Configs,
       ns \in 0 .. MaxSpecies :
      /\ size = sz
      /\ flags = ParseFlags(args, DefaultFlags)
      /\ config = cfg
      /\ num_species = ns
      /\ n_total = cfg.N
      /\ Nt = IF cfg.dt = 0 THEN 0 ELSE (cfg.tend + cfg.dt - 1) \div cfg.dt
      /\ ps = [r \in 0 .. sz - 1 |-> ShellOf(<<>>, 0)]
      /\ pc = [r \in 0 .. sz - 1 |-> "mkdir"]
      /\ it = [r \in 0 .. sz - 1 |-> -1]
      /\ scratch = [r \in 0 .. sz - 1 |-> NoScratch]
      /\ pre = [r \in 0 .. sz - 1 |-> NoPre]
      /\ sp = [r \in 0 .. sz - 1 |-> 0]
      /\ particle_systems = [r \in 0 .. sz - 1 |-> [i \in 1 .. ns |-> NoEntry]]
      /\ files = {}
      /\ particle_names = [i \in 0 .. ns - 1 |-> i]
      /\ csv = [n \in Names |-> << >>]
      /\ dirs = {}
      /\ printed = {}
      /\ once = [r \in 0 .. sz - 1 |-> NoOnce]

\* if (mpi.rank == 0 && (save_positions_flag || save_simulation_data_flag))
\* mkdir("output")
Mkdir(r) ==
    /\ pc[r] = "mkdir"
    /\ dirs' = IF r = 0 /\ (flags.save_positions_flag = 1
                             \/ flags.save_simulation_data_flag = 1)
               THEN dirs \cup {r} ELSE dirs
    /\ pc' = [pc EXCEPT ![r] = "barrier"]
    /\ UNCHANGED <<size, n_total, Nt, ps, it, scratch, pre, flags, config,
                   num_species, sp, particle_systems, files, printed, once,
                   csv, particle_names>>

\* MPI_Barrier(mpi.comm) after the directory is made
Barrier ==
    /\ AllAt("barrier")
    /\ pc' = [r \in Ranks |-> "config"]
    /\ UNCHANGED <<size, n_total, Nt, ps, it, scratch, pre, drv>>

\* mutation of ConfigCheck: tend is not tested
ConfigCheck_NoTend(r) ==
    /\ pc[r] = "config"
    /\ pc' = [pc EXCEPT ![r] =
         IF config.N = 0 \/ config.R = 0 \/ config.dt = 0
              \/ num_species = 0
         THEN "exit1" ELSE "create"]
    /\ UNCHANGED <<size, n_total, Nt, ps, it, scratch, pre, drv>>

\* the input file is read and checked: a missing or zero N, R, dt or tend,
\* or no species, ends the run with return 1
ConfigCheck(r) ==
    /\ pc[r] = "config"
    /\ pc' = [pc EXCEPT ![r] =
         IF config.N = 0 \/ config.R = 0 \/ config.dt = 0 \/ config.tend = 0
              \/ num_species = 0
         THEN "exit1" ELSE "create"]
    /\ UNCHANGED <<size, n_total, Nt, ps, it, scratch, pre, drv>>

\* the points the sampling loop is followed to in runs of main as a whole:
\* those of Positions on the x axis
SampledPositions == { p \in Positions : p[2] = 0 }

\* the body of the initialisation loop up to its MPI_Allreduce: the shell of
\* species i is constructed and filled with local_N accepted points
CreateParticles(r) ==
    /\ pc[r] = "create"
    /\ \E pos \in [1 .. LocalN(n_total, size, r) -> SampledPositions] :
         /\ ps' = [ps EXCEPT ![r] = NewShell(pos)]
         /\ scratch' = [scratch EXCEPT ![r] =
              [ local_max_r2 |-> getMaxRadiusSquared(NewShell(pos)) ]]
    /\ particle_systems' = [particle_systems EXCEPT ![r] =
         [particle_systems[r] EXCEPT ![sp[r] + 1] = BoundEntry]]
    /\ pc' = [pc EXCEPT ![r] = "ar_initmax"]
    /\ UNCHANGED <<size, n_total, Nt, it, pre, flags, config, num_species, sp,
                   files, dirs, printed, once,
                   csv, particle_names>>

\* MPI_Allreduce(&local_max_r2, &global_max_r2, 1, MPI_DOUBLE, MPI_MAX) of
\* the initialisation loop
AllreduceInitMax ==
    /\ AllAt("ar_initmax")
    /\ scratch' = [r \in Ranks |-> NoScratch]
    /\ pc' = [r \in Ranks |-> "sort"]
    /\ UNCHANGED <<size, n_total, Nt, ps, it, pre, drv>>

\* the MPI_Barrier after the time loop, then the summary and return 0
FinalBarrier ==
    /\ AllAt("done")
    /\ pc' = [r \in Ranks |-> "exit0"]
    /\ UNCHANGED <<size, n_total, Nt, ps, it, scratch, pre, drv>>

\* ------------------------------------------------------------ specification
Next ==
    \/ \E r \in Ranks : SortLocal(r)
    \/ AllreduceMin
    \/ AllreduceMax
    \/ \E r \in Ranks : Histogram(r)
    \/ AllreduceHist
    \/ \E r \in Ranks : Partition(r)
    \/ Alltoall
    \/ \E r \in Ranks : Pack(r)
    \/ Alltoallv
    \/ \E r \in Ranks : Merge(r)
    \/ \E r \in Ranks : Install(r)
    \/ Exscan
    \/ \E r \in Ranks : FieldSweep(r)
    \/ \E r \in Ranks : UpdatePositions(r)
    \/ \E r \in Ranks : EnergyLocal(r)
    \/ AllreduceEnergy
    \/ \E r \in Ranks : MaxR2Local(r)
    \/ AllreduceMaxR2
    \/ \E r \in Ranks : SaveSpeciesData(r)
    \/ \E r \in Ranks : EndOfBody(r)

Spec == Init /\ [][Next]_vars

SpecAny == InitAny /\ [][Next]_vars

\* main as a whole: the start-up, the kernels and the output
NextMain ==
    \/ \E r \in Ranks : Mkdir(r)
    \/ Barrier
    \/ \E r \in Ranks : ConfigCheck(r)
    \/ \E r \in Ranks : CreateParticles(r)
    \/ AllreduceInitMax
    \/ Next
    \/ GatherPositions
    \/ \E r \in Ranks : WritePositions(r)
    \/ FinalBarrier

SpecMain == InitMain /\ [][NextMain]_vars

SpecScenario == InitScenario /\ [][Next]_vars

\* the statements at which a rank waits for the other ranks: the
\* collectives of the kernels, of computeEnergyParallel and of main
Collectives == {"ar_min", "ar_max", "ar_hist", "a2a", "a2av", "field",
                "ar_energy", "ar_maxr2"}

\* no step of Next can be taken: every rank has left the time loop or waits
\* in a collective that some rank has not reached (~ ENABLED <<Next>>_vars,
\* written out)
Blocked ==
    /\ \A r \in Ranks : pc[r] \in Collectives \cup {"done"}
    /\ \A c \in Collectives : ~ AllAt(c)

\* every rank goes on running: a step that can be taken is taken.  This is
\* WF_vars(Next) with its enabling condition written out.
SpecScenarioFair ==
    SpecScenario /\ ([]<>Blocked \/ []<><<Next>>_vars)

\* any assignment and the scenarios together
SpecAnyScenario == (InitAny \/ InitScenario) /\ [][Next]_vars

\* main's split of the particles, followed through the initial calls and
\* one iteration of the main loop
InitTwice ==
    \E sz \in 1 .. MaxSize, N \in 1 .. MaxN :
      \E all \in [1 .. N -> Positions] :
        InitWith(sz, N, 1, [r \in 0 .. sz - 1 |-> LocalN(N, sz, r)],
                 Split(all, [r \in 0 .. sz - 1 |-> LocalN(N, sz, r)], sz))

\* the kernels with, on each rank, one call of the field update repeated
NextTwice == Next \/ \E r \in Ranks : FieldAgain(r)

SpecTwice == InitTwice /\ [][NextTwice]_vars

\* any assignment and the skewed inputs together
SpecAnySkew == (InitAny \/ InitSkew) /\ [][Next]_vars

\* the collectives of main as a whole: those of Collectives, the two
\* MPI_Barrier, the MPI_Allreduce of the initialisation loop and the gather
\* of saveParticlePositions
MainCollectives == Collectives \cup {"barrier", "ar_initmax", "gather", "done"}

\* no step of NextMain can be taken: every rank has returned from main or
\* waits in a collective that some rank has not reached
\* (~ ENABLED <<NextMain>>_vars, written out)
BlockedMain ==
    /\ \A r \in Ranks : pc[r] \in MainCollectives \cup {"exit0", "exit1"}
    /\ \A c \in MainCollectives : ~ AllAt(c)

\* main started with at most one option on the command line, -p or -n (-s
\* is the default, -e sets a flag that main does not read again)
InitMainOne ==
    /\ InitMain
    /\ \E a \in {"-p", "-n"} :
         flags \in {DefaultFlags, ParseFlags(<<a>>, DefaultFlags)}

\* main with every rank going on running: WF_vars(NextMain) with its
\* enabling condition written out
SpecMainFair ==
    /\ InitMainOne
    /\ [][NextMain]_vars
    /\ ([]<>BlockedMain \/ []<><<NextMain>>_vars)

\* the kernels for a species of either sign of iqom
SpecSigned == InitSigned /\ [][Next]_vars

\* main with -s and an input file that is complete, its species lines
\* giving any names: two lines can give the same name
InitNames ==
    \E sz \in 1 .. MaxSize, ns \in 1 .. MaxSpecies :
    \E names \in [0 .. ns - 1 -> Names] :
      /\ size = sz
      /\ flags = ParseFlags(<<"-s">>, DefaultFlags)
      /\ config = [ N |-> 1, R |-> R, dt |-> dt,
                   tend |-> (MaxSteps + 1) * dt ]
      /\ num_species = ns
      /\ n_total = 1
      /\ Nt = MaxSteps + 1
      /\ ps = [r \in 0 .. sz - 1 |-> ShellOf(<<>>, 0)]
      /\ pc = [r \in 0 .. sz - 1 |-> "mkdir"]
      /\ it = [r \in 0 .. sz - 1 |-> -1]
      /\ scratch = [r \in 0 .. sz - 1 |-> NoScratch]
      /\ pre = [r \in 0 .. sz - 1 |-> NoPre]
      /\ sp = [r \in 0 .. sz - 1 |-> 0]
      /\ particle_systems = [r \in 0 .. sz - 1 |-> [i \in 1 .. ns |-> NoEntry]]
      /\ files = {}
      /\ particle_names = names
      /\ csv = [n \in Names |-> << >>]
      /\ dirs = {}
      /\ printed = {}
      /\ once = [r \in 0 .. sz - 1 |-> NoOnce]

SpecMainNames == (InitMain \/ InitNames) /\ [][NextMain]_vars

\* ------------------------------------------------------------- properties
\* the statements of a rank inside sortParticlesParallel
InSort == {"sort", "ar_min", "ar_max", "hist", "ar_hist", "partition",
           "a2a", "pack", "a2av", "merge", "install"}

\* the statements of a rank inside updateElectricFieldParallel
InField == {"field", "sweep"}

\* I1 on rank r
I1(r) == \A i \in 1 .. ps[r].n_particles - 1 : ps[r].r2[i] <= ps[r].r2[i + 1]

\* I2 for the ranks p < q
I2(p, q) == \A i \in 1 .. ps[p].n_particles, j \in 1 .. ps[q].n_particles :
               ps[p].r2[i] <= ps[q].r2[j]

\* I3 on rank r
I3(r) == \A i \in 1 .. ps[r].n_particles :
            ps[r].r2[i] = ps[r].x[i] * ps[r].x[i] + ps[r].y[i] * ps[r].y[i]
                            + ps[r].z[i] * ps[r].z[i]

\* the particles of all ranks, as a bag of 9-field records
AllRecords == BagSum([r \in Ranks |-> BagOfSeq(Records(ps[r]))], Ranks)

\* rank r received a record from another rank in its latest call
Received(r) == BagOfSeq(Records(ps[r])) # pre[r].recs

\* C1: when sortParticlesParallel has returned on a rank, the r2 array of
\* that rank is non-decreasing (for every size >= 1 and every assignment of
\* the particles to the ranks).
C1_Sorted == \A r \in Ranks : pc[r] \notin InSort => I1(r)

C1_Witness ==
    \E r \in Ranks :
      /\ size >= 2 /\ pc[r] = "field" /\ Received(r)
      /\ ps[r].n_particles >= 2
      /\ ps[r].r2[1] < ps[r].r2[ps[r].n_particles]

\* C2: when sortParticlesParallel has returned on the ranks p < q, every r2
\* on p is <= every r2 on q.
C2_ShellOrder ==
    \A p, q \in Ranks :
      (p < q /\ pc[p] \notin InSort /\ pc[q] \notin InSort) => I2(p, q)

C2_Witness ==
    \E p, q \in Ranks :
      /\ p < q /\ pc[p] = "field" /\ pc[q] = "field"
      /\ Received(p) /\ Received(q)
      /\ ps[p].n_particles >= 1 /\ ps[q].n_particles >= 1
      /\ ps[p].r2[1] < ps[q].r2[1]

SumLocal == SumFn([r \in Ranks |-> ps[r].n_particles], Ranks)

\* C3: the local counts sum to n_total after main's split and whenever no
\* rank is between the exchange and the install of sortParticlesParallel,
\* and only that install changes a rank's n_particles.
C3_Count ==
    /\ []((\A r \in Ranks : pc[r] \notin {"merge", "install"})
            => SumLocal = n_total)
    /\ [][\A r \in Ranks :
            ps'[r].n_particles # ps[r].n_particles => pc[r] = "install"]_vars

C3_Witness ==
    /\ size >= 2
    /\ \A r \in Ranks : pc[r] = "move" /\ it[r] >= 1
    /\ \E r \in Ranks : ps[r].n_particles # LocalN(n_total, size, r)
    /\ SumLocal = n_total

IsPermutation(m, n) ==
    /\ DOMAIN m = 1 .. n
    /\ \A i \in 1 .. n : \E j \in 1 .. n : m[j] = i

\* C4: sortParticlesParallel permutes the particles: once it has returned
\* on every rank, the bag of 9-field records over all ranks is the bag the
\* ranks entered with (r2 recomputed), and on each rank merge_order is a
\* permutation of the received indices.
C4_Permutation ==
    /\ (\A r \in Ranks : pc[r] = "field")
         => AllRecords = BagSum([r \in Ranks |-> pre[r].recs], Ranks)
    /\ \A r \in Ranks : pc[r] = "install"
         => IsPermutation(scratch[r].merge_order, scratch[r].total_recv)

C4_Witness ==
    /\ size >= 2
    /\ \A r \in Ranks : pc[r] = "field"
    /\ \E r \in Ranks : Received(r) /\ ps[r].n_particles >= 2
                        /\ Rec(ps[r], 1) # Rec(ps[r], 2)

Ceil(a, b) == (a + b - 1) \div b

PrefixCharge(r, i) ==
    SumFn([p \in Ranks |-> SumSeq(ps[p].q)], 0 .. r - 1)
      + SumSeq(SubSeq(ps[r].q, 1, i))

\* the field of rank r is the one its latest call of C4 wrote
FieldDone(r) ==
    \/ pc[r] \in {"move", "gather", "write_pos", "energy", "ar_energy",
                 "maxr2", "ar_maxr2", "save", "next", "done"}
    \/ pc[r] = "sort" /\ it[r] >= 0

\* C6: after updateElectricFieldParallel, Er[i] * r2[i] is the prefix charge
\* up to and including i in the global sorted order, for every particle with
\* r2[i] > 1e-30.
C6_PrefixCharge ==
    \A r \in Ranks : FieldDone(r) =>
      \A i \in 1 .. ps[r].n_particles :
        ps[r].r2[i] > 0 =>
          ps[r].Er[i].num * ps[r].r2[i] = PrefixCharge(r, i) * ps[r].Er[i].den

C6_Witness ==
    /\ size >= 2
    /\ \A r \in Ranks : pc[r] = "move"
    /\ ps[0].n_particles >= 2 /\ ps[0].r2[2] > 0
    /\ ps[0].Er[2].num = ps[0].q[1] + ps[0].q[2]
    /\ ps[1].n_particles >= 1 /\ ps[1].r2[1] > 0
    /\ ps[1].Er[1].num = SumSeq(ps[0].q) + ps[1].q[1]

\* C7: every rank executes updateElectricFieldParallel with I1 and I3 on its
\* shell and I2 between it and every other rank that has returned from the
\* sort; I3 holds from the return of the sort until updatePositions; and no
\* step taken while a rank is in updateElectricFieldParallel changes its x,
\* y, z or r2.
C7_FieldPreconditions ==
    /\ [](\A r \in Ranks :
            /\ pc[r] \in InField => I1(r)
            /\ (pc[r] \in InField \cup {"move"}
                  \/ (it[r] = -1 /\ pc[r] \in {"energy", "ar_energy"})) => I3(r)
            /\ \A p \in Ranks :
                 (p < r /\ pc[r] \in InField /\ pc[p] \in InField \cup {"move"})
                    => I2(p, r)
            /\ \A p \in Ranks :
                 (r < p /\ pc[r] \in InField /\ pc[p] \in InField \cup {"move"})
                    => I2(r, p))
    /\ [][\A r \in Ranks : pc[r] \in InField =>
            /\ ps'[r].x = ps[r].x /\ ps'[r].y = ps[r].y
            /\ ps'[r].z = ps[r].z /\ ps'[r].r2 = ps[r].r2]_vars

C7_Witness ==
    \E r \in Ranks :
      /\ size >= 2 /\ it[r] >= 1 /\ pc[r] = "sweep"
      /\ Received(r)
      /\ \E i \in 1 .. ps[r].n_particles : ps[r].vx[i] # 0 /\ ps[r].vy[i] # 0
      /\ I3(r)

\* the splitters rank r has computed
HasSplitters(r) == pc[r] \in {"a2a", "pack"}

\* C9: within one call every rank computes the same splitter vector, of
\* length size - 1.
C9_SameSplitters ==
    \A p, q \in Ranks :
      (HasSplitters(p) /\ HasSplitters(q)) =>
         /\ scratch[p].splitters = scratch[q].splitters
         /\ DOMAIN scratch[p].splitters = 0 .. size - 2

C9_Witness ==
    /\ size >= 2
    /\ \A r \in Ranks : pc[r] = "a2a"
    /\ ps[0].n_particles >= 1 /\ ps[1].n_particles >= 1
    /\ ps[0].r2 # ps[1].r2
    /\ scratch[0].send_counts[1] >= 1 /\ scratch[1].send_counts[0] >= 1

\* I1 and I2 held on all ranks when they entered the call
PreSorted ==
    /\ \A r \in Ranks : pre[r].sorted
    /\ \A p, q \in Ranks : p < q =>
         \A a \in BagToSet(pre[p].recs), b \in BagToSet(pre[q].recs) :
           a[9] <= b[9]

\* send_counts of rank r is the identity pattern
IdentityPattern(r) ==
    \A d \in Ranks :
      scratch[r].send_counts[d] = IF d = r THEN ps[r].n_particles ELSE 0

HasSendCounts(r) == pc[r] \in {"a2a", "pack", "a2av"}

\* C10 as stated: a call of sortParticlesParallel entered with I1 and I2 on
\* all ranks moves no particle to another rank (send_counts is the identity
\* pattern) and every rank returns with the particles and the r2 array it
\* entered with.
C10_Original ==
    /\ ((\A r \in Ranks : HasSendCounts(r)) /\ PreSorted)
          => \A r \in Ranks : IdentityPattern(r)
    /\ ((\A r \in Ranks : pc[r] = "field") /\ PreSorted)
          => \A r \in Ranks : BagOfSeq(Records(ps[r])) = pre[r].recs /\ I1(r)

\* C10 (amended): the first call of the main loop, which main makes on the
\* shells its initial call returned with no position changed in between,
\* moves no particle to another rank: send_counts is the identity pattern,
\* and every rank returns with the particles and the r2 array it entered with.
C10_ResortIdentity ==
    \A r \in Ranks : it[r] = 0 =>
      /\ HasSendCounts(r) => IdentityPattern(r)
      /\ pc[r] = "field" =>
           /\ BagOfSeq(Records(ps[r])) = pre[r].recs
           /\ pre[r].sorted /\ I1(r)

C10_Witness ==
    /\ size >= 2
    /\ \A r \in Ranks : it[r] = 0 /\ pc[r] = "a2a" /\ IdentityPattern(r)
    /\ ps[0].n_particles >= 1 /\ ps[1].n_particles >= 1
    /\ ps[0].r2[1] < ps[1].r2[1]

\* ------------------------------------------------------- the scenarios
\* sortParticlesParallel has returned on every rank and the field update
\* has not begun its exchange
SortReturned == \A r \in Ranks : pc[r] = "field"

\* C11 as stated: with size = 3 and nine particles of r2 = 1, however they
\* are distributed at first, every rank owns exactly 3 particles after
\* sortParticlesParallel.
C11_Original ==
    (size = 3 /\ n_total = 9 /\ SortReturned)
      => \A r \in Ranks : ps[r].n_particles = 3

\* the initial call of updateElectricFieldParallel has returned on rank r
\* and main has not entered the time loop
FirstFieldDone(r) ==
    it[r] = -1 /\ pc[r] \in {"energy", "ar_energy", "save", "next"}

Frac(n, d) == [num |-> n, den |-> d]

\* C12: scenario S2 (size 2, q = 1, rank 0 owns r2 = {16, 4}, rank 1 owns
\* r2 = {1, 9}): after sortParticlesParallel rank 0 owns r2 = [1, 4] and rank
\* 1 owns r2 = [9, 16]; after updateElectricFieldParallel rank 0 has
\* Er = [1/1, 2/4] and rank 1 has Er = [3/9, 4/16].
C12_S2 ==
    (size = 2 /\ n_total = 4) =>
      /\ (SortReturned /\ (\A r \in Ranks : it[r] = -1)) =>
           /\ ps[0].r2 = <<1, 4>>
           /\ ps[1].r2 = <<9, 16>>
      /\ FirstFieldDone(0) => ps[0].Er = << Frac(1, 1), Frac(2, 4) >>
      /\ FirstFieldDone(1) => ps[1].Er = << Frac(3, 9), Frac(4, 16) >>

C12_Witness ==
    /\ size = 2 /\ n_total = 4
    /\ \A r \in Ranks : FirstFieldDone(r)
    /\ ps[0].r2 = <<1, 4>> /\ ps[1].r2 = <<9, 16>>
    /\ ps[1].Er[2] = Frac(4, 16)

\* the r2 of shell s are strictly increasing
Ascending(s) ==
    \A i \in 1 .. s.n_particles - 1 :
      s.x[i] * s.x[i] + s.y[i] * s.y[i] + s.z[i] * s.z[i]
        < s.x[i + 1] * s.x[i + 1] + s.y[i + 1] * s.y[i + 1]
            + s.z[i + 1] * s.z[i + 1]

\* shell s is the input of S1 as updateElectricFieldParallel leaves it
IsS1(s) ==
    /\ s.n_particles = 4
    /\ s.x = <<1, 2, 3, 4>> /\ s.y = <<0, 0, 0, 0>> /\ s.z = <<0, 0, 0, 0>>
    /\ s.q = <<1, 1, 1, 1>>

\* C13: with size = 1 sortParticlesParallel is the local r2 recompute and
\* the local sort only: the rank never reaches a collective of the sort, the
\* call is one step that keeps the particles (r2 recomputed) and leaves them
\* sorted by r2, an input whose r2 are ascending keeps its order, and for
\* the input S1 (positions (1,0,0) .. (4,0,0), q = 1) the field update then
\* gives Er = [1/1, 2/4, 3/9, 4/16].
C13_SingleRank ==
    /\ [](size = 1 =>
            /\ pc[0] \notin InSort \ {"sort"}
            /\ pc[0] \notin InSort =>
                 (I1(0) /\ ps[0].n_particles = n_total)
            /\ (FirstFieldDone(0) /\ IsS1(ps[0])) =>
                 ps[0].Er = << Frac(1, 1), Frac(2, 4), Frac(3, 9), Frac(4, 16) >>)
    /\ [][(size = 1 /\ pc[0] = "sort") =>
            /\ pc'[0] = "field"
            /\ BagOfSeq(Records(ps'[0]))
                 = BagOfSeq(Records(computeSquareRadius(ps[0])))
            /\ Ascending(ps[0]) => ps'[0] = computeSquareRadius(ps[0])]_vars

C13_Witness ==
    /\ size = 1 /\ FirstFieldDone(0) /\ IsS1(ps[0])
    /\ ps[0].Er[4] = Frac(4, 16)

\* the statements of sortParticlesParallel and updateElectricFieldParallel
\* with size >= 2, in the order of the code; the collectives among them are
\* ar_min, ar_max, ar_hist, a2a, a2av (sort) and the exchange that takes a
\* rank from field to sweep
CallOrder == << "sort", "ar_min", "ar_max", "hist", "ar_hist", "partition",
                "a2a", "pack", "a2av", "merge", "install", "field", "sweep" >>

\* the ranks of the largest scenario
ScenarioRanks == 0 .. 3

\* C14: with size >= 2 every rank goes through the same collectives of
\* sortParticlesParallel and updateElectricFieldParallel in the same order,
\* whatever its particle count; a rank without particles adds nothing to
\* the histogram and does not return early; every rank that enters the sort
\* returns from it and from the field update (no rank stays in a
\* collective); with size = 4 and N = 0 every rank keeps n_local = 0.
C14_Collectives ==
    /\ [](size >= 2 => \A r \in Ranks :
            /\ (pc[r] = "ar_hist" /\ ps[r].n_particles = 0)
                 => scratch[r].local_hist = EmptyBag
            /\ (size = 4 /\ n_total = 0) => ps[r].n_particles = 0)
    /\ [][size >= 2 => \A r \in Ranks : \A k \in 1 .. Len(CallOrder) - 1 :
            (pc[r] = CallOrder[k] /\ pc'[r] # pc[r])
              => pc'[r] = CallOrder[k + 1]]_vars
    /\ \A r \in ScenarioRanks :
         (r < size /\ pc[r] = "sort")
           ~> (r < size /\ pc[r] \notin InSort \cup InField)

C14_Witness ==
    /\ size >= 2
    /\ \E r \in Ranks :
         /\ pre[r].recs = EmptyBag /\ pc[r] = "field"
         /\ ps[r].n_particles > 0

\* updatePositions has returned on rank r in the timestep it is in
Moved == {"gather", "write_pos", "energy", "ar_energy", "maxr2", "ar_maxr2",
          "save", "next"}

\* C15: updateElectricFieldParallel leaves Er = 0 on every particle with
\* r2 = 0 (no division by r2); updatePositions leaves the velocity of such a
\* particle unchanged and still advances its position by dt * v; in S4 (size
\* 2, two particles at the origin) a particle at rest has, after the three
\* kernels, Er = 0, zero velocity and its position at the origin.
C15_ZeroRadius ==
    /\ [](\A r \in Ranks : FieldDone(r) =>
            \A i \in 1 .. ps[r].n_particles :
              ps[r].r2[i] = 0 => ps[r].Er[i] = ErZero)
    /\ [][\A r \in Ranks : (pc[r] = "move" /\ pc'[r] # "move") =>
            \A i \in 1 .. ps[r].n_particles :
              ps[r].r2[i] = 0 =>
                /\ ps'[r].vx[i] = ps[r].vx[i]
                /\ ps'[r].vy[i] = ps[r].vy[i]
                /\ ps'[r].vz[i] = ps[r].vz[i]
                /\ ps'[r].x[i] = ps[r].x[i] + dt * ps[r].vx[i]
                /\ ps'[r].y[i] = ps[r].y[i] + dt * ps[r].vy[i]
                /\ ps'[r].z[i] = ps[r].z[i] + dt * ps[r].vz[i]]_vars
    /\ []((size = 2 /\ n_total = 2) =>
            \A r \in Ranks : (it[r] = 0 /\ pc[r] \in Moved) =>
              \A i \in 1 .. ps[r].n_particles :
                (ps[r].vx[i] = 0 /\ ps[r].vy[i] = 0 /\ ps[r].vz[i] = 0) =>
                  /\ ps[r].Er[i] = ErZero
                  /\ ps[r].x[i] = 0 /\ ps[r].y[i] = 0 /\ ps[r].z[i] = 0)

C15_Witness ==
    /\ size = 2 /\ n_total = 2
    /\ \E r \in Ranks :
         /\ it[r] = 0 /\ pc[r] \in Moved /\ ps[r].n_particles = 2
         /\ \E i, j \in 1 .. 2 :
              /\ ps[r].x[i] = 0 /\ ps[r].vx[i] = 0 /\ ps[r].Er[i] = ErZero
              /\ ps[r].x[j] = 1 /\ ps[r].vx[j] = 1 /\ ps[r].Er[j] = ErZero

\* the statements of a rank inside the three kernels of a timestep
InKernels == InSort \cup InField \cup {"move"}

\* C16: in every timestep of the main loop the driver calls, for each
\* species in index order, sortParticlesParallel, then
\* updateElectricFieldParallel, then updatePositions on the shell of that
\* species, once each, and has finished the three before it starts the sort
\* of the next species; the field update never runs on a shell whose
\* positions were moved since its last sort (r2 is that of the positions).
C16_CallOrder ==
    /\ [][\A r \in Ranks : (it'[r] >= 0 /\ pc'[r] # pc[r]) =>
            /\ pc'[r] = "sort" =>
                 /\ pc[r] = "next"
                 /\ \/ it'[r] = it[r] /\ sp'[r] = sp[r] + 1
                    \/ /\ it'[r] = it[r] + 1
                       /\ sp[r] = num_species - 1 /\ sp'[r] = 0
            /\ pc[r] \in InSort => pc'[r] \in InSort \cup {"field"}
            /\ pc'[r] = "field" =>
                 (pc[r] = "install" \/ (size = 1 /\ pc[r] = "sort"))
            /\ pc'[r] = "sweep" => pc[r] = "field"
            /\ pc[r] = "sweep" => pc'[r] = "move"
            /\ pc'[r] = "move" => pc[r] = "sweep"
            /\ pc[r] = "move" => pc'[r] \notin InKernels
            /\ pc[r] # "next" => (sp'[r] = sp[r] /\ it'[r] = it[r])]_vars
    /\ [](\A r \in Ranks : (it[r] >= 0 /\ pc[r] \in InKernels) =>
            /\ sp[r] < num_species
            /\ particle_systems[r][sp[r] + 1].at = "bound"
            /\ \A i \in 1 .. num_species :
                 i # sp[r] + 1 => particle_systems[r][i].at = "parked")
    /\ [](\A r \in Ranks : (it[r] >= 0 /\ pc[r] \in InField) => I3(r))

C16_Witness ==
    /\ size = 2 /\ num_species = 2
    /\ \E r \in Ranks :
         /\ it[r] = 1 /\ sp[r] = 1 /\ pc[r] = "next"
         /\ ps[r].n_particles = 1 /\ ~I3(r)

\* the statements of a rank inside computeEnergyParallel
InEnergy == {"energy", "ar_energy"}

\* C17: in the main loop computeEnergyParallel is called for a species at
\* timestep it exactly when it % SAVE_INTERVAL = 0: a rank is inside it only
\* at such a timestep, and after updatePositions of such a timestep the
\* position dump or the energy comes next, of any other timestep the end of
\* the loop body; the ranks decide alike (no rank is at the end of the body
\* of a species and timestep while another is inside the energy of the
\* same); rank 0, and only rank 0, prints the energy error, for exactly the
\* timesteps with it % SAVE_INTERVAL = 0 whose species loop has ended.
C17_EnergyCadence ==
    /\ [](\A r \in Ranks : (it[r] >= 0 /\ pc[r] \in InEnergy) =>
            it[r] % SAVE_INTERVAL = 0)
    /\ [][\A r \in Ranks : (pc[r] = "move" /\ pc'[r] # "move") =>
            IF it[r] % SAVE_INTERVAL = 0
            THEN pc'[r] \in {"gather", "energy"}
            ELSE pc'[r] = "next"]_vars
    /\ [][\A r \in Ranks :
            (pc[r] \in {"gather", "write_pos"} /\ pc'[r] # pc[r]) =>
              pc'[r] = (IF pc[r] = "gather" THEN "write_pos" ELSE "energy")]_vars
    /\ [](\A r, p \in Ranks :
            (pc[r] \in InEnergy /\ pc[p] = "next") =>
              ~(it[p] = it[r] /\ sp[p] = sp[r]))
    /\ [](\A e \in printed :
            e.rank = 0 /\ e.step >= 0 /\ e.step % SAVE_INTERVAL = 0)
    /\ [](pc[0] \notin {"mkdir", "barrier", "config", "exit1"} =>
            \A t \in 0 .. it[0] - 1 :
              t % SAVE_INTERVAL = 0 => [rank |-> 0, step |-> t] \in printed)

C17_Witness ==
    /\ size = 2 /\ num_species = 2 /\ Nt >= 2
    /\ pc[0] = "done" /\ it[0] = Nt /\ pc[1] = "next" /\ it[1] = Nt - 1
    /\ [rank |-> 0, step |-> 0] \in printed
    /\ [rank |-> 0, step |-> 1] \notin printed

\* the test of main after the input file is parsed
InvalidConfig ==
    \/ config.N = 0 \/ config.R = 0 \/ config.dt = 0 \/ config.tend = 0
    \/ num_species = 0

\* C18: when N, R, dt or tend is missing or zero after the input file is
\* parsed, or no species record was read, every rank leaves main with
\* return 1 from the test of the configuration: no rank creates a particle
\* shell, enters sortParticlesParallel, updateElectricFieldParallel,
\* updatePositions or computeEnergyParallel, or runs a timestep, and no file
\* is written.
C18_FatalConfig ==
    InvalidConfig =>
      /\ \A r \in Ranks :
           /\ pc[r] \in {"mkdir", "barrier", "config", "exit1"}
           /\ it[r] = -1 /\ sp[r] = 0
           /\ ps[r] = ShellOf(<<>>, 0)
           /\ \A i \in 1 .. num_species : particle_systems[r][i] = NoEntry
      /\ files = {} /\ printed = {}

C18_Witness ==
    /\ size = 2 /\ AllAt("exit1")
    /\ config.N # 0 /\ config.R # 0 /\ config.dt # 0 /\ config.tend = 0
    /\ num_species = 2

\* C19: when the command line contains -n (no_save_flag is set), the run
\* writes no output file, whatever the other options and their order:
\* neither a record of a CSV log nor a position dump.
C19_Original == flags.no_save_flag = 1 => files = {}

\* the statements of main before its first MPI_Barrier has been passed
BeforeBarrier == {"mkdir", "barrier"}

\* C20: only rank 0 creates the output directory and only rank 0 writes an
\* output file (a record of a CSV log or a position dump): files and dirs
\* change only in a step of rank 0; the other ranks go through the gather of
\* saveParticlePositions together with rank 0 and leave it without a write;
\* the directory is created by rank 0 before it reaches the MPI_Barrier, and
\* a file is written only after every rank has passed that barrier, into
\* the directory rank 0 created.
C20_RankZeroWrites ==
    /\ [](dirs \subseteq {0} /\ \A f \in files : f.rank = 0)
    /\ [][(files' # files \/ dirs' # dirs) =>
            /\ pc'[0] # pc[0]
            /\ \A r \in Ranks \ {0} : pc'[r] = pc[r]]_vars
    /\ [][(\E r \in Ranks : pc[r] = "gather" /\ pc'[r] # "gather") =>
            \A r \in Ranks : pc[r] = "gather" /\ pc'[r] = "write_pos"]_vars
    /\ [][\A r \in Ranks \ {0} :
            (pc[r] = "write_pos" /\ pc'[r] # "write_pos") =>
              (files' = files /\ pc'[r] = "energy")]_vars
    /\ [][dirs' # dirs => (pc[0] = "mkdir" /\ pc'[0] = "barrier")]_vars
    /\ [](files # {} =>
            /\ dirs = {0}
            /\ \A r \in Ranks : pc[r] \notin BeforeBarrier)

C20_Witness ==
    /\ size = 2 /\ dirs = {0}
    /\ pc[0] = "energy" /\ pc[1] = "energy" /\ it[0] = 0 /\ it[1] = 0
    /\ \E f \in files : f.rank = 0 /\ f.name = <<"positions", 0, 0>>
    /\ \E f \in files : f.rank = 0 /\ f.name = <<"simulation_output", 0>>

\* C21: getMaxRadiusSquared returns the maximum of r2 over the particles of
\* the shell, and minus infinity (a value below every double) when the
\* shell has no particles.
C21_Original ==
    \A r \in Ranks : pc[r] = "ar_maxr2" =>
      IF ps[r].n_particles = 0
      THEN scratch[r].local_max_r2 < - DBL_MAX
      ELSE scratch[r].local_max_r2
             = Max({ ps[r].r2[i] : i \in 1 .. ps[r].n_particles })

\* C22: with a valid configuration every rank runs Nt = ceil(tend / dt)
\* iterations of the time loop, one at a time and the same number on every
\* rank, then passes the final MPI_Barrier and returns 0; when every rank
\* goes on running, the run ends there (every call of the kernels and of
\* computeEnergyParallel returns on every rank).
C22_Termination ==
    /\ [](~ InvalidConfig => Nt = Ceil(config.tend, config.dt))
    /\ [](\A r \in Ranks : pc[r] \in {"done", "exit0"} => it[r] = Nt)
    /\ [][\A r \in Ranks : it'[r] # it[r] =>
            (pc[r] = "next" /\ it'[r] = it[r] + 1 /\ it'[r] <= Nt)]_vars
    /\ [][\A r \in Ranks : (pc'[r] = "exit0" /\ pc[r] # "exit0") =>
            AllAt("done")]_vars
    /\ [](\A r \in Ranks : pc[r] = "exit0" => ~ InvalidConfig)
    /\ (~ InvalidConfig) ~> (~ InvalidConfig /\ AllAt("exit0"))

C22_Witness ==
    /\ size = 2 /\ num_species = 2 /\ AllAt("exit0")
    /\ Nt >= 2 /\ Nt = Ceil(config.tend, config.dt)
    /\ \A r \in Ranks : it[r] = Nt

\* the chunk (source rank) of element j of a receive buffer with the counts
\* recv_counts
ChunkOf(recv_counts, j) ==
    CHOOSE c \in DOMAIN recv_counts :
      /\ Displs(recv_counts)[c] < j
      /\ j <= Displs(recv_counts)[c] + recv_counts[c]

\* C23: the k-way merge orders the received particles by (r2, chunk_id): of
\* two received particles of equal r2 from different chunks the one of the
\* lower chunk comes first in merge_order, and particles of one chunk keep
\* their order.
C23_Original ==
    \A r \in Ranks : pc[r] = "install" =>
      LET sc == scratch[r]
      IN  \A i, j \in 1 .. sc.total_recv :
            (i < j /\ sc.recv.r2[sc.merge_order[i]]
                        = sc.recv.r2[sc.merge_order[j]]) =>
              LET a == sc.merge_order[i]
                  b == sc.merge_order[j]
              IN  /\ ChunkOf(sc.recv_counts, a) <= ChunkOf(sc.recv_counts, b)
                  /\ ChunkOf(sc.recv_counts, a) = ChunkOf(sc.recv_counts, b)
                       => a < b

\* the bin a splitter value (times NUM_BINS) is the upper edge of
EdgeBin(v, mn, mx) == (v - NUM_BINS * mn) \div (mx - mn) - 1

\* C24: in every call of sortParticlesParallel with size >= 2 the splitter
\* vector has size - 1 entries in non-decreasing order; splitter k is
\* r2_min + (b + 1) * bin_width for the first bin b after the bin of
\* splitter k - 1 at which the cumulative global count has reached
\* (k + 1) * ceil(total / size), and is r2_max when the scan of the
\* NUM_BINS bins finds no such bin.  (cumsum does not decrease from bin to
\* bin: it has not reached a value before bin b when it has not at b - 1.)
C24_Splitters ==
    [][\A r \in Ranks : (pc[r] = "partition" /\ pc'[r] = "a2a") =>
         LET hist == scratch[r].global_hist
             mn == scratch[r].r2_min_global
             mx == scratch[r].r2_max_global
             splitters == scratch'[r].splitters
             target == Ceil(BagCardinality(hist), size)
             cumsum(b) == CumHist(hist, b)
             prev(k) == IF k = 0 THEN -1
                        ELSE EdgeBin(splitters[k - 1], mn, mx)
             Emitted(k) ==
               LET b == EdgeBin(splitters[k], mn, mx)
               IN  /\ splitters[k] = NUM_BINS * mn + (b + 1) * (mx - mn)
                   /\ prev(k) < b /\ b < NUM_BINS
                   /\ cumsum(b) >= (k + 1) * target
                   /\ prev(k) + 1 <= b - 1 => cumsum(b - 1) < (k + 1) * target
             Filled(k) ==
               /\ splitters[k] = NUM_BINS * mx
               /\ prev(k) + 1 <= NUM_BINS - 1 =>
                    cumsum(NUM_BINS - 1) < (k + 1) * target
         IN  /\ size >= 2
             /\ DOMAIN splitters = 0 .. size - 2
             /\ \A k \in 0 .. size - 3 : splitters[k] <= splitters[k + 1]
             /\ \A k \in 0 .. size - 2 : Emitted(k) \/ Filled(k)]_vars

\* a rank holds splitters of which the last was not emitted by the scan: the
\* one before it is the upper edge of the last bin
C24_Witness ==
    /\ size = 3
    /\ \E r \in Ranks :
         /\ pc[r] = "a2a"
         /\ scratch[r].splitters[0] = scratch[r].splitters[1]
         /\ \E p \in Ranks, i \in 1 .. 4 :
              /\ i <= ps[p].n_particles
              /\ scratch[r].splitters[1] = NUM_BINS * ps[p].r2[i]
         /\ \E p \in Ranks : ps[p].n_particles > 0 /\ ps[p].r2[1] = 0

\* the lowest k with r2 <= splitter[k], size - 1 when there is none
LowestSplitter(splitters, r2v) ==
    LET le == { k \in DOMAIN splitters : NUM_BINS * r2v <= splitters[k] }
    IN  IF le = {} THEN size - 1 ELSE Min(le)

\* splitter[k-1] < r2 <= splitter[k], the missing bound of the first and of
\* the last rank left out
InShellOf(k, splitters, r2v) ==
    /\ k > 0 => splitters[k - 1] < NUM_BINS * r2v
    /\ k < size - 1 => NUM_BINS * r2v <= splitters[k]

\* the records of the bag B that belong to rank k
ShellPart(B, k, splitters) ==
    [e \in { e \in BagToSet(B) : InShellOf(k, splitters, e[9]) } |-> B[e]]

\* C25: the partition step puts every local particle into the bucket of
\* exactly one destination in 0 .. size-1, the lowest k with
\* r2 <= splitter[k], or size-1 above the last splitter, and a bucket lists
\* its particles in ascending r2; after the exchange rank k has received
\* exactly the particles, of all ranks, with splitter[k-1] < r2 <=
\* splitter[k], and each received chunk is sorted by r2.
C25_Buckets ==
    \A r \in Ranks :
      /\ pc[r] \in {"a2a", "pack"} =>
           LET sc == scratch[r]
           IN  /\ DOMAIN sc.buckets = 0 .. size - 1
               /\ \A i \in 1 .. ps[r].n_particles : \A d \in Ranks :
                    (\E j \in 1 .. Len(sc.buckets[d]) : sc.buckets[d][j] = i)
                      <=> d = LowestSplitter(sc.splitters, ps[r].r2[i])
               /\ \A d \in Ranks : \A j \in 1 .. Len(sc.buckets[d]) - 1 :
                    /\ sc.buckets[d][j] < sc.buckets[d][j + 1]
                    /\ ps[r].r2[sc.buckets[d][j]]
                         <= ps[r].r2[sc.buckets[d][j + 1]]
      /\ pc[r] = "install" =>
           LET sc == scratch[r]
           IN  /\ BagOfSeq(Records(sc.recv))
                    = ShellPart(BagSum([p \in Ranks |-> pre[p].recs], Ranks),
                                r, sc.splitters)
               /\ \A i \in 1 .. sc.total_recv - 1 :
                    ChunkOf(sc.recv_counts, i) = ChunkOf(sc.recv_counts, i + 1)
                      => sc.recv.r2[i] <= sc.recv.r2[i + 1]

C25_Witness ==
    /\ size = 3
    /\ \A r \in Ranks : pc[r] = "install"
    /\ scratch[0].total_recv = 2 /\ scratch[0].recv_counts[1] = 1
    /\ scratch[1].total_recv = 2 /\ scratch[1].recv_counts[0] = 1
    /\ scratch[1].recv_counts[2] = 1

\* the nine arrays of the shell s have the length n_particles
SameLength(s) ==
    \A arr \in {s.x, s.y, s.z, s.vx, s.vy, s.vz, s.q, s.r2} :
      /\ DOMAIN arr = 1 .. s.n_particles
      /\ DOMAIN s.Er = 1 .. s.n_particles

\* C26: in every reachable state the nine arrays x, y, z, vx, vy, vz, q,
\* Er, r2 of every shell (the one a rank works on and those of the other
\* species) have the same length, and that length is n_particles: the
\* constructor and resize set it so, and sortParticlesParallel,
\* updateElectricFieldParallel and updatePositions keep it.
C26_SameLength ==
    \A r \in Ranks :
      /\ SameLength(ps[r])
      /\ \A i \in 1 .. num_species : SameLength(particle_systems[r][i].shell)

C26_Witness ==
    /\ size = 2 /\ n_total = 3
    /\ \A r \in Ranks :
         /\ pc[r] = "field"
         /\ ps[r].n_particles # BagCardinality(pre[r].recs)
    /\ ps[0].n_particles = 2 /\ ps[1].n_particles = 1

\* C27: updateElectricFieldParallel called twice in a row on all ranks, q
\* and r2 unchanged in between, leaves every shell as the first call left
\* it (whatever Er held before the calls); a step of the field update
\* changes no array of the shell but Er.
C27_Idempotent ==
    /\ [](\A r \in Ranks :
            (once[r].called /\ once[r].at = it[r]
               /\ pc[r] = (IF it[r] = -1 THEN "energy" ELSE "move")) =>
              ps[r] = once[r].shell)
    /\ [][\A r \in Ranks : pc[r] \in InField =>
            ps'[r] = [ps[r] EXCEPT !.Er = ps'[r].Er]]_vars

C27_Witness ==
    /\ size = 2 /\ n_total = 3
    /\ \A r \in Ranks :
         /\ once[r].called /\ once[r].at = 0 /\ pc[r] = "move" /\ it[r] = 0
         /\ ps[r].n_particles > 0
         /\ ps[r] = once[r].shell
    /\ ps[1].Er[1].num = 3 * QUnit

\* C28: updatePositions is local: the step is one rank's alone (no other
\* rank's statement or shell changes with it and no buffer of a collective
\* is touched); it changes x, y, z, vx, vy, vz only and leaves q, Er, r2,
\* n_particles, iqom and n_total as they were; the position
\* of a particle is advanced with the velocity the same call has updated.
C28_MoveFrame ==
    [][\A r \in Ranks : (pc[r] = "move" /\ pc'[r] # "move") =>
         /\ ps'[r].q = ps[r].q /\ ps'[r].Er = ps[r].Er
         /\ ps'[r].r2 = ps[r].r2
         /\ ps'[r].n_particles = ps[r].n_particles
         /\ ps'[r].iqom = ps[r].iqom
         /\ n_total' = n_total /\ scratch' = scratch
         /\ \A p \in Ranks \ {r} : ps'[p] = ps[p] /\ pc'[p] = pc[p]
         /\ \A i \in 1 .. ps[r].n_particles :
              /\ ps'[r].vx[i]
                   = NewVel(ps[r].vx[i], ps[r].x[i], ps[r].Er[i], ps[r].r2[i],
                            ps[r].iqom)
              /\ ps'[r].vy[i]
                   = NewVel(ps[r].vy[i], ps[r].y[i], ps[r].Er[i], ps[r].r2[i],
                            ps[r].iqom)
              /\ ps'[r].vz[i]
                   = NewVel(ps[r].vz[i], ps[r].z[i], ps[r].Er[i], ps[r].r2[i],
                            ps[r].iqom)
              /\ ps'[r].x[i] = ps[r].x[i] + dt * ps'[r].vx[i]
              /\ ps'[r].y[i] = ps[r].y[i] + dt * ps'[r].vy[i]
              /\ ps'[r].z[i] = ps[r].z[i] + dt * ps'[r].vz[i]]_vars

\* rank 0 has moved its particles, with a velocity the call changed, while
\* rank 1 has not yet finished the field update
C28_Witness ==
    /\ size = 2
    /\ pc[0] = "energy" /\ it[0] = 0 /\ pc[1] = "sweep"
    /\ \E i \in 1 .. ps[0].n_particles :
         /\ ps[0].vx[i] > 0
         /\ ps[0].x[i] * ps[0].x[i] + ps[0].y[i] * ps[0].y[i] > ps[0].r2[i]

\* ---------------------------------------------------------------- C29
\* the save timesteps of a run of Nt steps, and the log a complete run is
\* said to leave: the header, then one row per save timestep, by time
SaveSteps == { t \in 0 .. Nt - 1 : t % SAVE_INTERVAL = 0 }

ExpectedLog ==
    <<Header>> \o [ k \in 1 .. Cardinality(SaveSteps) |->
                      Row((k - 1) * SAVE_INTERVAL * dt) ]

\* C29: with -s, after a complete run the CSV log of every species holds
\* exactly one header line followed by one data row per save timestep in
\* [0, Nt), in increasing time order; and every write to a log either
\* truncates (leaving the header and a row of time 0, only when the row's
\* time is 0.0) or appends one row of non-zero time to what was there
C29_Original ==
    /\ [](flags.save_simulation_data_flag = 1 /\ AllAt("exit0")
            => \A i \in 0 .. num_species - 1 :
                 csv[particle_names[i]] = ExpectedLog)
    /\ [][\A n \in Names :
            csv'[n] # csv[n] =>
              LET row == csv'[n][Len(csv'[n])] IN
              /\ ~ row.header
              /\ IF row.time = 0
                 THEN csv'[n] = <<Header, row>>
                 ELSE csv'[n] = Append(csv[n], row)]_vars

\* ---------------------------------------------------------------- C30
\* the statements of a save step at which r2 is about to be read: the
\* entry of computeEnergyParallel, its loops, and getMaxRadiusSquared
ReadsR2 == InEnergy \cup {"maxr2"}

NormSq(px, py, pz) == px * px + py * py + pz * pz

\* x*x + y*y + z*z of particle i of shell s where updatePositions found it:
\* the position less the step dt * v it has just been advanced by
PreMoveNormSq(s, i) ==
    NormSq(s.x[i] - dt * s.vx[i], s.y[i] - dt * s.vy[i], s.z[i] - dt * s.vz[i])

\* updatePositions changed the position of particle i of shell s
PositionChanged(s, i) == s.vx[i] # 0 \/ s.vy[i] # 0 \/ s.vz[i] # 0

\* C30 as stated: at a save step of the main loop the energy evaluator and
\* the MaxR2 report read, after updatePositions and before the next sort,
\* the r2 the preceding sort cached, in the order of before the move; and
\* whenever updatePositions changed a position, r2 = x*x + y*y + z*z does
\* not hold for it when these values are read
C30_Original ==
    \A r \in Ranks : pc[r] \in ReadsR2 /\ it[r] >= 0 =>
      /\ I1(r)
      /\ \A i \in 1 .. ps[r].n_particles :
           /\ ps[r].r2[i] = PreMoveNormSq(ps[r], i)
           /\ PositionChanged(ps[r], i)
                => ps[r].r2[i] # NormSq(ps[r].x[i], ps[r].y[i], ps[r].z[i])

\* C30, amended: at a save step of the main loop the energy evaluator and
\* the MaxR2 report read the r2 of the positions of before the move, in the
\* order the preceding sort left; r2 = x*x + y*y + z*z fails for a particle
\* exactly when the move changed its distance from the origin
C30_StaleRead ==
    \A r \in Ranks : pc[r] \in ReadsR2 /\ it[r] >= 0 =>
      /\ I1(r)
      /\ \A i \in 1 .. ps[r].n_particles :
           /\ ps[r].r2[i] = PreMoveNormSq(ps[r], i)
           /\ ps[r].r2[i] # NormSq(ps[r].x[i], ps[r].y[i], ps[r].z[i])
                <=> PreMoveNormSq(ps[r], i)
                      # NormSq(ps[r].x[i], ps[r].y[i], ps[r].z[i])

\* getMaxRadiusSquared is about to read the r2 of a shell a particle of
\* which has moved to another distance from the origin
C30_Witness ==
    \E r \in Ranks :
      /\ pc[r] = "maxr2" /\ it[r] = 0
      /\ \E i \in 1 .. ps[r].n_particles :
           /\ PositionChanged(ps[r], i)
           /\ ps[r].r2[i] # NormSq(ps[r].x[i], ps[r].y[i], ps[r].z[i])

=============================================================================
